---- MODULE Spec2Model ----
(***************************************************************************)
(* Model of the romba worker pool (worker/worker.go): the two-pass         *)
(* directory walk of Work, the worker goroutines of runSlave and the       *)
(* commonRoot path function.  Strings are sequences of one-character       *)
(* strings, so that prefixes and separators are what the code sees.        *)
(* Further: the merge function Upd and the DAT refresh of db/db.go, the    *)
(* kivi key-value store at the level of the bytes of its data files, and   *)
(* archive with its deferred calls.  Each part has its own specification   *)
(* (Spec, SpecCR, SpecUpd, SpecKv, SpecRefresh, SpecArchive); the state    *)
(* of the other parts stays idle in it.  SpecWorkFair is Spec with every   *)
(* goroutine scheduled fairly, for the termination of Work.                *)
(***************************************************************************)
EXTENDS Integers, Sequences, FiniteSets, TLC

VARIABLES
    goos,        \* build target: decides filepath.Separator and VolumeName
    crPc,        \* position of the commonRoot driver: "idle", "in", "out"
    pa, pb,      \* arguments of the commonRoot call under test
    crRes,       \* its result
    paths,       \* Work's paths argument (rewritten in place by the Abs loop)
    tree,        \* the callbacks filepath.Walk makes over the file tree, in walk order
    numWorkers,  \* master.NumWorkers()
    pc,          \* position of Work
    rootK,       \* index of the root being handled by the current loop over paths
    pos,         \* index of the next callback of the current walk
    loopI,       \* loop counter of the spawn loop and of the closeC receive loops
    cv,          \* the countVisitor
    scanned,     \* arguments master.Scanned received (called = FALSE before)
    pt,          \* the progress tracker, as the calls it received
    inworkOpen,  \* the work channel has not been closed
    inwork,      \* the units the work channel holds in its buffer
    closeC,      \* buffered channel of worker exit errors
    walkErr,     \* err of the failed dispatch walk (lines 251-252)
    perr,        \* Work's perr (line 271)
    result,      \* error returned by Work
    slaves,      \* per worker: position in runSlave, work unit, perr
    hist,        \* observations of the collaborators' calls
    upd,         \* the merge driver: the stored value and the last call of Upd
    kv,          \* the kivi store: data files, sidecars, the open handle, the calls made
    rf,          \* Refresh: the DAT store, the worker batches, the position of Work
    ar           \* archive: the reader, the writers, the output file, the deferred calls

crVars == <<goos, crPc, pa, pb, crRes>>

workVars == <<paths, tree, numWorkers, pc, rootK, pos, loopI, cv, scanned, pt, inworkOpen,
              inwork, closeC, walkErr, perr, result, slaves, hist>>

\* the state of the drivers of the other packages (db, kivi, archive)
auxVars == <<upd, kv, rf, ar>>

vars == <<crVars, workVars, auxVars>>

\* a driver that is not the one under check stays in its idle state
IdleUpd == [pc |-> "idle"]

IdleKv == [pc |-> "idle"]

IdleRf == [pc |-> "idle"]

IdleAr == [pc |-> "idle"]

IdleAux == upd = IdleUpd /\ kv = IdleKv /\ rf = IdleRf /\ ar = IdleAr

\* ---------------------------------------------------------------- bounds
MaxDepth == 2
MaxWorkers == 2
MaxEntries == 3

\* ------------------------------------------------------- path/filepath
Separator == IF goos = "windows" THEN "\\" ELSE "/"

IsPathSeparator(c) == c = "/" \/ (goos = "windows" /\ c = "\\")

DriveLetters == {"C", "D"}

\* filepath.VolumeName: a drive letter and a colon on Windows, "" elsewhere
VolumeName(p) ==
    IF goos = "windows" /\ Len(p) >= 2 /\ p[1] \in DriveLetters /\ p[2] = ":"
    THEN SubSeq(p, 1, 2)
    ELSE <<>>

Drop(s, n) == SubSeq(s, n + 1, Len(s))

Last(s) == s[Len(s)]

\* the elements of s between separators, empty elements included
RECURSIVE SplitPath(_, _, _)
SplitPath(s, i, cur) ==
    IF i > Len(s) THEN <<cur>>
    ELSE IF IsPathSeparator(s[i]) THEN <<cur>> \o SplitPath(s, i + 1, <<>>)
    ELSE SplitPath(s, i + 1, Append(cur, s[i]))

DotDot == <<".", ".">>

\* the element loop of filepath.Clean: drop "" and ".", resolve ".."
RECURSIVE CleanElems(_, _, _, _)
CleanElems(elems, i, rooted, out) ==
    IF i > Len(elems) THEN out
    ELSE LET e == elems[i] IN
         IF e = <<>> \/ e = <<".">> THEN CleanElems(elems, i + 1, rooted, out)
         ELSE IF e = DotDot THEN
              IF Len(out) > 0 /\ Last(out) # DotDot
              THEN CleanElems(elems, i + 1, rooted, SubSeq(out, 1, Len(out) - 1))
              ELSE IF rooted THEN CleanElems(elems, i + 1, rooted, out)
              ELSE CleanElems(elems, i + 1, rooted, Append(out, e))
         ELSE CleanElems(elems, i + 1, rooted, Append(out, e))

RECURSIVE JoinElems(_, _)
JoinElems(elems, i) ==
    IF i > Len(elems) THEN <<>>
    ELSE elems[i] \o (IF i < Len(elems) THEN <<Separator>> ELSE <<>>)
                  \o JoinElems(elems, i + 1)

\* filepath.Clean
Clean(p) ==
    LET vol  == VolumeName(p)
        rest == Drop(p, Len(vol))
    IN  IF rest = <<>> THEN p \o <<".">>
        ELSE LET rooted == IsPathSeparator(rest[1])
                 body   == JoinElems(CleanElems(SplitPath(rest, 1, <<>>), 1, rooted, <<>>), 1)
             IN  IF rooted THEN vol \o <<Separator>> \o body
                 ELSE IF body = <<>> THEN vol \o <<".">>
                 ELSE vol \o body

\* filepath.IsAbs
IsAbs(p) ==
    LET vol == VolumeName(p) IN
    /\ Len(p) > Len(vol)
    /\ IsPathSeparator(p[Len(vol) + 1])
    /\ (goos = "windows" => vol # <<>>)

\* ----------------------------------------------------------- commonRoot
\* the for loop of commonRoot: <<cursor, lastSep>> when it breaks
\* (cursor and lastSep are 0-based as in the code; sa[cursor] is sa[cursor+1] here)
RECURSIVE scanCommon(_, _, _, _)
scanCommon(sa, sb, cursor, lastSep) ==
    IF cursor < Len(sa) /\ cursor < Len(sb) /\ sa[cursor + 1] = sb[cursor + 1]
    THEN scanCommon(sa, sb, cursor + 1,
                    IF sa[cursor + 1] = Separator THEN cursor ELSE lastSep)
    ELSE <<cursor, lastSep>>

\* a commonRoot that cuts at the cursor instead of at the last separator
commonRootCutAtCursor(xa, xb) ==
    IF xa = <<>> \/ xb = <<>> THEN <<>>
    ELSE LET pac == Clean(xa)
             pbc == Clean(xb)
             va  == VolumeName(pac)
             vb  == VolumeName(pbc)
         IN  IF va # vb THEN <<>>
             ELSE LET sa == Drop(pac, Len(va))
                      sb == Drop(pbc, Len(vb))
                      sc == scanCommon(sa, sb, 0, -1)
                      cursor == sc[1]
                      res == SubSeq(pac, 1, Len(va) + cursor)
                  IN  IF cursor = Len(sa) /\ Len(sa) = Len(sb) THEN pac
                      ELSE IF res = <<>> /\ Separator = "/" THEN <<"/">>
                      ELSE res

commonRoot(xa, xb) ==
    IF xa = <<>> \/ xb = <<>> THEN <<>>
    ELSE LET pac == Clean(xa)
             pbc == Clean(xb)
             va  == VolumeName(pac)
             vb  == VolumeName(pbc)
         IN  IF va # vb THEN <<>>
             ELSE LET sa == Drop(pac, Len(va))
                      sb == Drop(pbc, Len(vb))
                      sc == scanCommon(sa, sb, 0, -1)
                      cursor  == sc[1]
                      lastSep == sc[2]
                      res == SubSeq(pac, 1, Len(va) + lastSep)
                  IN  IF cursor = Len(sa) /\ Len(sa) = Len(sb) THEN pac
                      ELSE IF lastSep = -1 THEN va \o <<Separator>>
                      ELSE IF res = <<>> /\ Separator = "/" THEN <<"/">>
                      ELSE res

Min(a, b) == IF a < b THEN a ELSE b

SetMax(S) == CHOOSE x \in S : \A y \in S : y <= x

\* ---------------------------------------------------------------- errors
Nil == [kind |-> "nil", id |-> 0]

StartErr == [kind |-> "start", id |-> 0]

AbsErr == [kind |-> "abs", id |-> 0]

FinishErr == [kind |-> "finishup", id |-> 0]

CloseErr == [kind |-> "close", id |-> 0]

WalkError(j) == [kind |-> "walk", id |-> j]

ProcessErr(j) == [kind |-> "process", id |-> j]

\* ------------------------------------------------------------- file tree
\* One record per callback of filepath.Walk: the path, the os.FileInfo
\* (fnil: Lstat of the root failed and f is nil) and whether Walk passes a
\* non-nil err (failed: the root cannot be stat'ed, the directory cannot be
\* read) and in which passes: "no", "both", or "dispatch" for a directory
\* that became unreadable after the counting pass.  accept is
\* master.Accept(path).
Entry(path, name, fnil, isDir, failed, size, accept) ==
    [path |-> path, name |-> name, fnil |-> fnil, isDir |-> isDir,
     failed |-> failed, size |-> size, accept |-> accept]

\* the candidate callbacks, in the lexical order filepath.Walk visits them
Universe == <<
    Entry(<<"/", "a", "/", ".", "D", "S", "_", "S", "t", "o", "r", "e">>, ".DS_Store", FALSE, FALSE, "no", 1, TRUE),
    Entry(<<"/", "a", "/", "d">>, "d", FALSE, TRUE, "no", 1, TRUE),
    Entry(<<"/", "a", "/", "n">>, "n", FALSE, FALSE, "no", 2, FALSE),
    Entry(<<"/", "a", "/", "s">>, "s", FALSE, TRUE, "both", 1, FALSE),
    Entry(<<"/", "a", "/", "t">>, "t", FALSE, TRUE, "dispatch", 1, FALSE),
    Entry(<<"/", "a", "/", "x">>, "x", FALSE, FALSE, "no", 1, TRUE),
    Entry(<<"/", "a", "/", "y">>, "y", FALSE, FALSE, "no", 2, TRUE),
    Entry(<<"/", "a", "/", "z">>, "z", FALSE, FALSE, "no", 4, TRUE),
    Entry(<<"/", "b">>, "b", TRUE, FALSE, "both", 0, FALSE) >>

Range(s) == { s[n] : n \in 1..Len(s) }

\* the paths arguments tried: one absolute root, or a relative and an absolute one
RootChoices == { << <<"/", "a">> >>, << <<"a">>, <<"/", "b">> >> }

\* the working directory os.Getwd reports
Cwd == <<"/">>

\* filepath.Abs of a relative name when os.Getwd succeeds: Join(wd, name)
Abs(name) == Clean(Cwd \o <<Separator>> \o name)

\* p is root or lies below it
IsUnder(root, p) ==
    \/ p = root
    \/ /\ Len(p) > Len(root)
       /\ SubSeq(p, 1, Len(root)) = root
       /\ p[Len(root) + 1] = Separator

\* indexes of the callbacks filepath.Walk(root, fn) makes, in order
WalkOf(root) ==
    SelectSeq([j \in 1..Len(tree) |-> j], LAMBDA j : IsUnder(root, tree[j].path))

\* the os.FileInfo and the err of callback j
InfoOf(j) == [fnil |-> tree[j].fnil, name |-> tree[j].name,
              isDir |-> tree[j].isDir, size |-> tree[j].size]

ErrOf(j, pass) ==
    IF tree[j].failed = "both" \/ tree[j].failed = pass THEN WalkError(j) ELSE Nil

\* master.Accept(path)
Accept(path) == \E j \in 1..Len(tree) : tree[j].path = path /\ tree[j].accept

IdxOf(path) == CHOOSE j \in 1..Len(tree) : tree[j].path = path

\* ---------------------------------------------------------------- visitors
\* countVisitor.visit: the updated visitor and the error returned to Walk
countVisit(c, path, f, err) ==
    IF f.fnil \/ f.name = ".DS_Store" THEN [cv |-> c, ret |-> Nil]
    ELSE IF ~f.isDir /\ Accept(path)
    THEN [cv |-> [numFiles |-> c.numFiles + 1,
                  numBytes |-> c.numBytes + f.size,
                  commonRootPath |-> IF c.commonRootPath = <<>> THEN path
                                     ELSE commonRoot(c.commonRootPath, path)],
          ret |-> Nil]
    ELSE [cv |-> c, ret |-> Nil]

NoUnit == [path |-> <<>>, size |-> 0]

\* scanVisitor.visit: whether a work unit is sent on inwork, the unit, and
\* the error returned to Walk
scanVisit(path, f, err) ==
    IF f.fnil \/ f.name = ".DS_Store" THEN [send |-> FALSE, wu |-> NoUnit, ret |-> Nil]
    ELSE IF ~f.isDir /\ Accept(path)
    THEN [send |-> TRUE, wu |-> [path |-> path, size |-> f.size], ret |-> Nil]
    ELSE [send |-> FALSE, wu |-> NoUnit, ret |-> Nil]

\* --------------------------------------------------------------- Work
NoSlave == [pc |-> "none", wu |-> NoUnit, perr |-> Nil]

NoItem == [recv |-> 0, proc |-> 0, add |-> 0, by |-> 0, err |-> Nil]

IdleWork ==
    /\ paths = <<>>
    /\ tree = <<>>
    /\ numWorkers = 0
    /\ pc = "idle"
    /\ rootK = 1
    /\ pos = 1
    /\ loopI = 0
    /\ cv = [numFiles |-> 0, numBytes |-> 0, commonRootPath |-> <<>>]
    /\ scanned = [called |-> FALSE, numFiles |-> 0, numBytes |-> 0, commonRootPath |-> <<>>]
    /\ pt = [totalBytes |-> 0, totalFiles |-> 0, added |-> 0, finished |-> 0]
    /\ inworkOpen = FALSE
    /\ inwork = <<>>
    /\ closeC = <<>>
    /\ walkErr = Nil
    /\ perr = Nil
    /\ result = Nil
    /\ slaves = <<>>
    /\ hist = <<>>

IdleCR ==
    /\ goos = "posix"
    /\ crPc = "idle"
    /\ pa = <<>>
    /\ pb = <<>>
    /\ crRes = <<>>

\* a tree is a selection of the candidate callbacks that a file system can
\* produce: nothing lies below a root that cannot be stat'ed, every callback
\* belongs to the walk of one of the roots, and the walk of a root that has
\* nothing below it still makes the callback for the root itself (the
\* callbacks for readable directories that are not accepted change nothing
\* and are left out)
TreeOK(t, roots) ==
    /\ \A e1 \in Range(t) : \A e2 \in Range(t) :
          (e1.fnil /\ e1 # e2) => ~IsUnder(e1.path, e2.path)
    /\ \A e \in Range(t) : \E r \in Range(roots) :
          IsUnder(IF IsAbs(r) THEN r ELSE Abs(r), e.path)
    /\ \A r \in Range(roots) :
          (\E e \in Range(Universe) : e.fnil /\ e.path = r)
             => \E e \in Range(t) : e.path = r

Init ==
    /\ IdleCR
    /\ IdleAux
    /\ paths \in RootChoices
    /\ \E T \in SUBSET Range(Universe) :
          /\ Cardinality(T) <= MaxEntries
          /\ tree = SelectSeq(Universe, LAMBDA e : e \in T)
    /\ TreeOK(tree, paths)
    /\ numWorkers \in 0..MaxWorkers
    /\ pc = "start"
    /\ rootK = 1
    /\ pos = 1
    /\ loopI = 0
    /\ cv = [numFiles |-> 0, numBytes |-> 0, commonRootPath |-> <<>>]
    /\ scanned = [called |-> FALSE, numFiles |-> 0, numBytes |-> 0, commonRootPath |-> <<>>]
    /\ pt = [totalBytes |-> 0, totalFiles |-> 0, added |-> 0, finished |-> 0]
    /\ inworkOpen = FALSE
    /\ inwork = <<>>
    /\ closeC = <<>>
    /\ walkErr = Nil
    /\ perr = Nil
    /\ result = Nil
    /\ slaves = [s \in 1..numWorkers |-> NoSlave]
    /\ hist = [started |-> FALSE,
               finishUpCalls |-> 0,
               finishUpReturned |-> FALSE,
               finishUpErr |-> Nil,
               countErr |-> Nil,
               dispErr |-> Nil,
               sentAfterDispErr |-> FALSE,
               items |-> [j \in 1..Len(tree) |-> NoItem],
               wlog |-> [s \in 1..numWorkers |-> <<>>],
               closeCalls |-> [s \in 1..numWorkers |-> 0],
               closeFailed |-> FALSE,
               sent |-> [s \in 1..numWorkers |-> <<>>],
               received |-> <<>>]

\* master.Start (lines 195-199)
Start ==
    /\ pc = "start"
    /\ \E ok \in BOOLEAN :
          IF ok
          THEN /\ pc' = "abs"
               /\ hist' = [hist EXCEPT !.started = TRUE]
               /\ UNCHANGED result
          ELSE /\ pc' = "done"
               /\ result' = StartErr
               /\ UNCHANGED hist
    /\ UNCHANGED <<paths, tree, numWorkers, rootK, pos, loopI, cv, scanned, pt, inworkOpen, inwork,
                   closeC, walkErr, perr, slaves>>
    /\ UNCHANGED <<crVars, auxVars>>

\* one iteration of the loop that makes the roots absolute (lines 204-212)
AbsPath ==
    /\ pc = "abs"
    /\ \E ok \in BOOLEAN :
          IF ~IsAbs(paths[rootK]) /\ ~ok
          THEN /\ pc' = "done"
               /\ result' = AbsErr
               /\ UNCHANGED <<paths, rootK>>
          ELSE /\ paths' = IF IsAbs(paths[rootK]) THEN paths
                           ELSE [paths EXCEPT ![rootK] = Abs(paths[rootK])]
               /\ IF rootK < Len(paths)
                  THEN rootK' = rootK + 1 /\ pc' = "abs"
                  ELSE rootK' = 1 /\ pc' = "count"
               /\ UNCHANGED result
    /\ UNCHANGED <<tree, numWorkers, pos, loopI, cv, scanned, pt, inworkOpen, inwork,
                   closeC, walkErr, perr, slaves, hist>>
    /\ UNCHANGED <<crVars, auxVars>>

\* one callback of the counting walk (line 217 with lines 103-117); a
\* non-nil return of the visitor ends the walk and Work (lines 218-221)
CountVisit ==
    /\ pc = "count"
    /\ pos <= Len(WalkOf(paths[rootK]))
    /\ LET j == WalkOf(paths[rootK])[pos]
           r == countVisit(cv, tree[j].path, InfoOf(j), ErrOf(j, "count"))
       IN  /\ cv' = r.cv
           /\ hist' = [hist EXCEPT !.countErr =
                          IF @ = Nil THEN ErrOf(j, "count") ELSE @]
           /\ IF r.ret # Nil
              THEN pc' = "done" /\ result' = r.ret /\ UNCHANGED pos
              ELSE pos' = pos + 1 /\ UNCHANGED <<pc, result>>
    /\ UNCHANGED <<paths, tree, numWorkers, rootK, loopI, scanned, pt, inworkOpen, inwork,
                   closeC, walkErr, perr, slaves>>
    /\ UNCHANGED <<crVars, auxVars>>

\* the counting walk of one root returns nil; after the last root Work calls
\* master.Scanned, seeds the progress tracker and makes the channels
\* (lines 224-238)
CountWalkReturn ==
    /\ pc = "count"
    /\ pos > Len(WalkOf(paths[rootK]))
    /\ IF rootK < Len(paths)
       THEN /\ rootK' = rootK + 1
            /\ pos' = 1
            /\ UNCHANGED <<pc, loopI, scanned, pt, inworkOpen, inwork, closeC>>
       ELSE /\ scanned' = [called |-> TRUE, numFiles |-> cv.numFiles,
                           numBytes |-> cv.numBytes,
                           commonRootPath |-> cv.commonRootPath]
            /\ pt' = [pt EXCEPT !.totalBytes = cv.numBytes,
                                !.totalFiles = cv.numFiles]
            /\ inworkOpen' = TRUE
            /\ inwork' = <<>>
            /\ closeC' = <<>>
            /\ loopI' = 0
            /\ rootK' = 1
            /\ pos' = 1
            /\ pc' = IF numWorkers > 0 THEN "spawn" ELSE "dispatch"
    /\ UNCHANGED <<paths, tree, numWorkers, cv, walkErr, perr, result, slaves, hist>>
    /\ UNCHANGED <<crVars, auxVars>>

\* one iteration of the spawn loop (lines 240-248)
SpawnWorker ==
    /\ pc = "spawn"
    /\ loopI < numWorkers
    /\ slaves' = [slaves EXCEPT ![loopI + 1] = [pc |-> "recv", wu |-> NoUnit, perr |-> Nil]]
    /\ loopI' = loopI + 1
    /\ pc' = IF loopI + 1 < numWorkers THEN "spawn" ELSE "dispatch"
    /\ UNCHANGED <<paths, tree, numWorkers, rootK, pos, cv, scanned, pt, inworkOpen, inwork,
                   closeC, walkErr, perr, result, hist>>
    /\ UNCHANGED <<crVars, auxVars>>

\* a work channel made with room for one unit per worker, as closeC is
inworkCapOfNumWorkers == numWorkers

\* the capacity of the work channel: make(chan *workUnit) gives it no buffer
\* (line 231)
inworkCap == 0

\* one callback of the dispatch walk (line 251 with lines 124-135).  The send
\* on inwork completes when a worker blocked in its range loop takes the
\* unit (line 166) or, with no worker waiting, when the buffer of the channel
\* has room for it; otherwise the walk stays blocked in the send.  A non-nil
\* return of the visitor ends the walk: Work closes inwork and calls
\* pt.Finished (lines 252-256)
DispatchVisit ==
    /\ pc = "dispatch"
    /\ pos <= Len(WalkOf(paths[rootK]))
    /\ LET j == WalkOf(paths[rootK])[pos]
           r == scanVisit(tree[j].path, InfoOf(j), ErrOf(j, "dispatch"))
           h == [hist EXCEPT !.dispErr = IF @ = Nil THEN ErrOf(j, "dispatch") ELSE @]
       IN  /\ IF r.send
              THEN IF \E s \in 1..numWorkers : slaves[s].pc = "recv"
                   THEN \E s \in 1..numWorkers :
                           /\ inworkOpen
                           /\ slaves[s].pc = "recv"
                           /\ slaves' = [slaves EXCEPT ![s] = [@ EXCEPT !.pc = "process", !.wu = r.wu]]
                           /\ hist' = [h EXCEPT
                                          !.items[IdxOf(r.wu.path)] =
                                              [@ EXCEPT !.recv = @ + 1, !.by = s],
                                          !.sentAfterDispErr = @ \/ hist.dispErr # Nil]
                           /\ inwork' = inwork
                   ELSE /\ inworkOpen
                        /\ Len(inwork) < inworkCap
                        /\ inwork' = Append(inwork, r.wu)
                        /\ slaves' = slaves
                        /\ hist' = [h EXCEPT !.sentAfterDispErr = @ \/ hist.dispErr # Nil]
              ELSE /\ slaves' = slaves
                   /\ hist' = h
                   /\ inwork' = inwork
           /\ IF r.ret # Nil
              THEN /\ walkErr' = r.ret
                   /\ inworkOpen' = FALSE
                   /\ pt' = [pt EXCEPT !.finished = @ + 1]
                   /\ pc' = "collect"
                   /\ loopI' = 0
                   /\ UNCHANGED pos
              ELSE /\ pos' = pos + 1
                   /\ UNCHANGED <<walkErr, inworkOpen, pt, pc, loopI>>
    /\ UNCHANGED <<paths, tree, numWorkers, rootK, cv, scanned, closeC, perr, result>>
    /\ UNCHANGED <<crVars, auxVars>>

\* the dispatch walk of one root returns nil; after the last root Work
\* closes inwork (line 269)
DispatchWalkReturn ==
    /\ pc = "dispatch"
    /\ pos > Len(WalkOf(paths[rootK]))
    /\ IF rootK < Len(paths)
       THEN /\ rootK' = rootK + 1
            /\ pos' = 1
            /\ UNCHANGED <<pc, loopI, inworkOpen>>
       ELSE /\ inworkOpen' = FALSE
            /\ pc' = "collect"
            /\ loopI' = 0
            /\ UNCHANGED <<rootK, pos>>
    /\ UNCHANGED <<paths, tree, numWorkers, cv, scanned, pt, inwork, closeC, walkErr, perr,
                   result, slaves, hist>>
    /\ UNCHANGED <<crVars, auxVars>>

\* one receive from closeC: lines 272-280, or lines 259-264 after a failed
\* dispatch walk, where the worker error is only logged
MasterRecv ==
    /\ pc = "collect"
    /\ loopI < numWorkers
    /\ closeC # <<>>
    /\ closeC' = Tail(closeC)
    /\ loopI' = loopI + 1
    /\ perr' = IF walkErr = Nil /\ Head(closeC) # Nil /\ perr = Nil
               THEN Head(closeC) ELSE perr
    /\ hist' = [hist EXCEPT !.received = Append(@, Head(closeC))]
    /\ UNCHANGED <<paths, tree, numWorkers, pc, rootK, pos, cv, scanned, pt, inworkOpen, inwork,
                   walkErr, result, slaves>>
    /\ UNCHANGED <<crVars, auxVars>>

\* all exits received: return the walk error (line 265), or call pt.Finished
\* and master.FinishUp (lines 282-284)
CollectDone ==
    /\ pc = "collect"
    /\ loopI >= numWorkers
    /\ IF walkErr # Nil
       THEN /\ result' = walkErr
            /\ pc' = "done"
            /\ UNCHANGED <<pt, hist>>
       ELSE /\ pt' = [pt EXCEPT !.finished = @ + 1]
            /\ hist' = [hist EXCEPT !.finishUpCalls = @ + 1]
            /\ pc' = "finishup"
            /\ UNCHANGED result
    /\ UNCHANGED <<paths, tree, numWorkers, rootK, pos, loopI, cv, scanned, inworkOpen, inwork,
                   closeC, walkErr, perr, slaves>>
    /\ UNCHANGED <<crVars, auxVars>>

\* a Work that forgets the worker error once FinishUp succeeded
workResultDropsWorkerErr(ferr, workerErr) ==
    IF ferr # Nil THEN ferr ELSE Nil

\* what Work returns once master.FinishUp has returned ferr (lines 285-323)
workResult(ferr, workerErr) ==
    IF ferr # Nil THEN ferr
    ELSE IF workerErr # Nil THEN workerErr
    ELSE Nil

\* master.FinishUp returns and Work returns (lines 284-323)
FinishUpReturn ==
    /\ pc = "finishup"
    /\ \E ferr \in {Nil, FinishErr} :
          /\ result' = workResult(ferr, perr)
          /\ hist' = [hist EXCEPT !.finishUpReturned = TRUE, !.finishUpErr = ferr]
    /\ pc' = "done"
    /\ UNCHANGED <<paths, tree, numWorkers, rootK, pos, loopI, cv, scanned, pt, inworkOpen, inwork,
                   closeC, walkErr, perr, slaves>>
    /\ UNCHANGED <<crVars, auxVars>>

\* ------------------------------------------------------------- runSlave
\* a runSlave that remembers its last error instead of its first
slavePerrLast(old, err) == IF err # Nil THEN err ELSE old

\* perr of runSlave after a Process call returned err (lines 170-175)
slavePerr(old, err) == IF err # Nil /\ old = Nil THEN err ELSE old

\* a runSlave that drops the units it receives after a failed Process
SlaveProcessSkipAfterError(s) ==
    /\ slaves[s].pc = "process"
    /\ LET j == IdxOf(slaves[s].wu.path) IN
       \E err \in {Nil, ProcessErr(j)} :
          /\ slaves' = [slaves EXCEPT ![s] =
                           [pc |-> "recv", wu |-> NoUnit,
                            perr |-> IF @.perr # Nil THEN @.perr ELSE err]]
          /\ pt' = [pt EXCEPT !.added = @ + slaves[s].wu.size]
          /\ hist' = IF slaves[s].perr # Nil
                     THEN [hist EXCEPT !.items[j] = [@ EXCEPT !.add = @ + 1]]
                     ELSE [hist EXCEPT
                              !.items[j] = [@ EXCEPT !.proc = @ + 1, !.add = @ + 1, !.err = err],
                              !.wlog[s] = Append(@, j)]
    /\ UNCHANGED <<paths, tree, numWorkers, pc, rootK, pos, loopI, cv, scanned, inworkOpen, inwork,
                   closeC, walkErr, perr, result>>
    /\ UNCHANGED <<crVars, auxVars>>

\* a runSlave that reports the bytes of a unit only when Process succeeded
SlaveProcessBytesOnSuccess(s) ==
    /\ slaves[s].pc = "process"
    /\ LET j == IdxOf(slaves[s].wu.path) IN
       \E err \in {Nil, ProcessErr(j)} :
          /\ slaves' = [slaves EXCEPT ![s] =
                           [pc |-> "recv", wu |-> NoUnit,
                            perr |-> IF err # Nil /\ @.perr = Nil THEN err ELSE @.perr]]
          /\ pt' = IF err = Nil THEN [pt EXCEPT !.added = @ + slaves[s].wu.size] ELSE pt
          /\ hist' = [hist EXCEPT
                         !.items[j] = [@ EXCEPT !.proc = @ + 1,
                                                !.add = IF err = Nil THEN @ + 1 ELSE @,
                                                !.err = err],
                         !.wlog[s] = Append(@, j)]
    /\ UNCHANGED <<paths, tree, numWorkers, pc, rootK, pos, loopI, cv, scanned, inworkOpen, inwork,
                   closeC, walkErr, perr, result>>
    /\ UNCHANGED <<crVars, auxVars>>

\* worker.Process returns, nil or an error, and the bytes of the unit are
\* added to the progress tracker (lines 169-177); back at the range over
\* inwork (line 166) the worker takes the unit at the head of the buffer if
\* the channel holds one, and waits for a send otherwise
SlaveProcess(s) ==
    /\ slaves[s].pc = "process"
    /\ LET j == IdxOf(slaves[s].wu.path) IN
       \E err \in {Nil, ProcessErr(j)} :
          LET h == [hist EXCEPT
                       !.items[j] = [@ EXCEPT !.proc = @ + 1, !.add = @ + 1, !.err = err],
                       !.wlog[s] = Append(@, j)]
          IN  /\ pt' = [pt EXCEPT !.added = @ + slaves[s].wu.size]
              /\ IF inwork = <<>>
                 THEN /\ slaves' = [slaves EXCEPT ![s] =
                                       [pc |-> "recv", wu |-> NoUnit,
                                        perr |-> slavePerr(@.perr, err)]]
                      /\ hist' = h
                      /\ inwork' = inwork
                 ELSE /\ slaves' = [slaves EXCEPT ![s] =
                                       [pc |-> "process", wu |-> Head(inwork),
                                        perr |-> slavePerr(@.perr, err)]]
                      /\ hist' = [h EXCEPT !.items[IdxOf(Head(inwork).path)] =
                                               [@ EXCEPT !.recv = @ + 1, !.by = s]]
                      /\ inwork' = Tail(inwork)
    /\ UNCHANGED <<paths, tree, numWorkers, pc, rootK, pos, loopI, cv, scanned, inworkOpen,
                   closeC, walkErr, perr, result>>
    /\ UNCHANGED <<crVars, auxVars>>

\* a runSlave that reports its exit on closeC before it calls worker.Close
SlaveCloseAfterSend(s) ==
    /\ slaves[s].pc = "recv"
    /\ ~inworkOpen
    /\ Len(closeC) < numWorkers
    /\ closeC' = Append(closeC, slaves[s].perr)
    /\ slaves' = [slaves EXCEPT ![s].pc = "closing"]
    /\ hist' = [hist EXCEPT !.closeCalls[s] = @ + 1]
    /\ UNCHANGED <<paths, tree, numWorkers, pc, rootK, pos, loopI, cv, scanned, pt, inworkOpen, inwork,
                   walkErr, perr, result>>
    /\ UNCHANGED <<crVars, auxVars>>

\* the range loop ends on the closed channel and worker.Close is called (line 180)
SlaveClose(s) ==
    /\ slaves[s].pc = "recv"
    /\ ~inworkOpen
    /\ slaves' = [slaves EXCEPT ![s].pc = "closing"]
    /\ hist' = [hist EXCEPT !.closeCalls[s] = @ + 1]
    /\ UNCHANGED <<paths, tree, numWorkers, pc, rootK, pos, loopI, cv, scanned, pt, inworkOpen, inwork,
                   closeC, walkErr, perr, result>>
    /\ UNCHANGED <<crVars, auxVars>>

\* a runSlave that reports the error of worker.Close when no Process failed
slaveExitErrRecordsClose(p, cerr) == IF p = Nil THEN cerr ELSE p

\* what runSlave sends on closeC when worker.Close returned cerr: the error
\* of Close is logged and perr is sent as it was (lines 180-185)
slaveExitErr(p, cerr) == p

\* worker.Close returns, its error is only logged, and the worker sends its
\* perr on closeC, which has room for every worker (lines 180-186)
SlaveExit(s) ==
    /\ slaves[s].pc = "closing"
    /\ Len(closeC) < numWorkers
    /\ slaves' = [slaves EXCEPT ![s].pc = "done"]
    /\ \E cerr \in {Nil, CloseErr} :
          /\ closeC' = Append(closeC, slaveExitErr(slaves[s].perr, cerr))
          /\ hist' = [hist EXCEPT !.closeFailed = @ \/ cerr # Nil,
                                  !.sent[s] = Append(@, slaveExitErr(slaves[s].perr, cerr))]
    /\ UNCHANGED <<paths, tree, numWorkers, pc, rootK, pos, loopI, cv, scanned, pt, inworkOpen, inwork,
                   walkErr, perr, result>>
    /\ UNCHANGED <<crVars, auxVars>>

Next ==
    \/ Start
    \/ AbsPath
    \/ CountVisit
    \/ CountWalkReturn
    \/ SpawnWorker
    \/ DispatchVisit
    \/ DispatchWalkReturn
    \/ MasterRecv
    \/ CollectDone
    \/ FinishUpReturn
    \/ \E s \in 1..numWorkers : SlaveProcess(s)
    \/ \E s \in 1..numWorkers : SlaveClose(s)
    \/ \E s \in 1..numWorkers : SlaveExit(s)


\* ------------------------------------------------------- Work: helpers
RECURSIVE FirstNonNil(_)
FirstNonNil(errs) ==
    IF errs = <<>> THEN Nil
    ELSE IF Head(errs) # Nil THEN Head(errs)
    ELSE FirstNonNil(Tail(errs))

\* the errors worker s got from its Process calls, in call order
ErrsOf(s) == [n \in 1..Len(hist.wlog[s]) |-> hist.items[hist.wlog[s][n]].err]

Occ(seq, x) == Cardinality({ n \in 1..Len(seq) : seq[n] = x })

RECURSIVE SumOcc(_, _)
SumOcc(s, x) ==
    IF s = 0 THEN 0 ELSE Occ(hist.wlog[s], x) + SumOcc(s - 1, x)

\* Work went through both walks and the receive loop and returned
CompleteRun == pc = "done" /\ hist.started /\ scanned.called /\ walkErr = Nil

\* callbacks for accepted regular files of the walked roots
AcceptedIdx ==
    { j \in 1..Len(tree) :
        /\ ~tree[j].fnil
        /\ tree[j].name # ".DS_Store"
        /\ ~tree[j].isDir
        /\ tree[j].accept
        /\ \E r \in 1..Len(paths) : IsUnder(paths[r], tree[j].path) }

RECURSIVE SumSizes(_)
SumSizes(J) ==
    IF J = {} THEN 0
    ELSE LET j == CHOOSE x \in J : TRUE IN tree[j].size + SumSizes(J \ {j})

\* ------------------------------------------------------------------- C1
\* C1: with at least one worker, if Start and both walks succeeded and some
\* worker.Process call returned an error, the error Work returns is not nil.
C1_ProcessErrorMakesWorkFail ==
    (CompleteRun /\ numWorkers >= 1
       /\ \E j \in 1..Len(tree) : hist.items[j].proc > 0 /\ hist.items[j].err # Nil)
    => result # Nil

C1_Witness ==
    /\ CompleteRun
    /\ numWorkers = 2
    /\ hist.finishUpErr = Nil
    /\ \E j \in 1..Len(tree) : hist.items[j].err # Nil /\ result = hist.items[j].err
    /\ \E j \in 1..Len(tree) : hist.items[j].proc = 1 /\ hist.items[j].err = Nil

\* ------------------------------------------------------------------- C2
\* C2 as claimed: once a worker exit error was received, that first one is
\* what Work returns and nothing replaces it.
C2_WorkerErrorNeverReplaced ==
    (CompleteRun /\ FirstNonNil(hist.received) # Nil)
    => result = FirstNonNil(hist.received)

\* C2 as amended: Work returns only after every worker has closed and sent
\* its exit error, which is the first error of that worker's own Process
\* calls; Work returns the first non-nil exit error it received unless
\* master.FinishUp failed, in which case it returns FinishUp's error.
C2_FirstWorkerErrorUnlessFinishUpFails ==
    CompleteRun =>
        /\ \A s \in 1..numWorkers :
              /\ slaves[s].pc = "done"
              /\ hist.closeCalls[s] = 1
              /\ hist.sent[s] = << FirstNonNil(ErrsOf(s)) >>
        /\ Len(hist.received) = numWorkers
        /\ \A e \in Range(hist.received) :
              Occ(hist.received, e) =
                  Cardinality({ s \in 1..numWorkers : hist.sent[s] = <<e>> })
        /\ result = IF hist.finishUpErr # Nil THEN hist.finishUpErr
                    ELSE FirstNonNil(hist.received)

C2_Witness ==
    /\ CompleteRun
    /\ hist.finishUpErr = Nil
    /\ Len(hist.received) = 2
    /\ hist.received[1] # Nil
    /\ hist.received[2] # Nil
    /\ hist.received[1] # hist.received[2]
    /\ result = hist.received[1]
    /\ \E s \in 1..numWorkers :
          /\ Len(hist.wlog[s]) >= 2
          /\ ErrsOf(s)[1] # Nil
          /\ ErrsOf(s)[2] # Nil

\* ------------------------------------------------------------------- C3
\* C3: every unit handed over on the work channel is received once, by one
\* worker, and Process is called for it once, by that worker; when Work
\* returns every received unit has been processed, also those a worker
\* received after one of its Process calls had failed.
C3_EachUnitProcessedOnce ==
    /\ \A j \in 1..Len(tree) :
          /\ hist.items[j].recv <= 1
          /\ hist.items[j].proc <= hist.items[j].recv
          /\ SumOcc(numWorkers, j) = hist.items[j].proc
          /\ hist.items[j].proc = 1 => Occ(hist.wlog[hist.items[j].by], j) = 1
          /\ (hist.items[j].recv = 1 /\ hist.items[j].proc = 0)
                => /\ slaves[hist.items[j].by].pc = "process"
                   /\ slaves[hist.items[j].by].wu.path = tree[j].path
    /\ (pc = "done" /\ scanned.called)
          => \A j \in 1..Len(tree) : hist.items[j].proc = hist.items[j].recv

C3_Witness ==
    /\ pc = "done"
    /\ \E s \in 1..numWorkers :
          /\ Len(hist.wlog[s]) >= 2
          /\ ErrsOf(s)[1] # Nil
          /\ ErrsOf(s)[2] = Nil
    /\ \A j \in AcceptedIdx : hist.items[j].proc = 1

\* ------------------------------------------------------------------- C4
\* C4: AddBytesFromFile is called once per processed unit, failed or not;
\* when Work returns after a complete dispatch walk every accepted file was
\* handed over and the bytes added equal the total given to SetTotalBytes,
\* the summed size of the accepted files.
C4_BytesAddedEqualTotal ==
    /\ \A j \in 1..Len(tree) :
          /\ hist.items[j].add <= 1
          /\ hist.items[j].add = hist.items[j].proc
    /\ CompleteRun =>
          /\ \A j \in 1..Len(tree) :
                hist.items[j].add = IF j \in AcceptedIdx THEN 1 ELSE 0
          /\ pt.totalBytes = SumSizes(AcceptedIdx)
          /\ pt.added = pt.totalBytes

C4_Witness ==
    /\ CompleteRun
    /\ pt.added = pt.totalBytes
    /\ Cardinality(AcceptedIdx) >= 2
    /\ \E j \in AcceptedIdx : hist.items[j].err # Nil /\ hist.items[j].add = 1

\* ------------------------------------------------------------------- C5
\* C5: a worker calls Close once, with the work channel closed and no unit in
\* hand, and processes nothing afterwards; FinishUp is called once, and only
\* when every worker has returned from Close and exited, so that no Process
\* or Close runs during or after FinishUp.
C5_CloseInv ==
    /\ \A s \in 1..numWorkers :
          /\ hist.closeCalls[s] <= 1
          /\ hist.closeCalls[s] = 1
                => /\ ~inworkOpen
                   /\ slaves[s].pc \in {"closing", "done"}
                   /\ slaves[s].wu = NoUnit
    /\ hist.finishUpCalls <= 1
    /\ hist.finishUpCalls = 1
          => \A s \in 1..numWorkers :
                slaves[s].pc = "done" /\ hist.closeCalls[s] = 1

C5_CloseStep ==
    \A s \in 1..numWorkers :
        (hist.closeCalls[s] = 1 \/ hist.finishUpCalls = 1)
            => /\ hist'.wlog[s] = hist.wlog[s]
               /\ hist'.closeCalls[s] = hist.closeCalls[s]

C5_CloseBeforeFinishUp == []C5_CloseInv /\ [][C5_CloseStep]_vars

C5_Witness ==
    /\ pc = "finishup"
    /\ numWorkers = 2
    /\ \A s \in 1..numWorkers : hist.closeCalls[s] = 1 /\ Len(hist.wlog[s]) >= 1

\* ------------------------------------------------------------------- C6
\* C6: whenever master.Start succeeded, master.FinishUp has been called and
\* has returned by the time Work returns.
C6_EpochAlwaysClosed ==
    (pc = "done" /\ hist.started) => hist.finishUpReturned

\* ------------------------------------------------------------------- C7
\* C7: once the traversal has reported an error in the counting pass, no
\* worker is spawned, no unit is handed over and Work returns that error.
C7_CountErrorAborts ==
    hist.countErr # Nil =>
        /\ \A s \in 1..numWorkers : slaves[s].pc = "none"
        /\ \A j \in 1..Len(tree) : hist.items[j].recv = 0
        /\ pc = "done" => result = hist.countErr

\* ------------------------------------------------------------------- C8
\* C8: once the traversal has reported an error in the dispatch pass, no
\* unit is handed over any more, and Work returns that walk error after all
\* workers have exited.
C8_DispatchErrorAborts ==
    hist.dispErr # Nil =>
        /\ ~hist.sentAfterDispErr
        /\ pc = "done" => /\ result = hist.dispErr
                          /\ \A s \in 1..numWorkers : slaves[s].pc = "done"

\* ------------------------------------------------------------------- C9
\* q starts with the m-character prefix pre, which ends where an element of q ends
EndsAtBoundary(pre, q) ==
    /\ Len(pre) <= Len(q)
    /\ SubSeq(q, 1, Len(pre)) = pre
    /\ (Len(pre) = Len(q) \/ q[Len(pre) + 1] = Separator)

\* the longest prefix, ending at a separator boundary, shared by all paths
\* of the non-empty set Q ("/" when only the root is shared)
LongestSharedPrefix(Q) ==
    LET q0 == CHOOSE q \in Q : TRUE
        M  == { m \in 0..Len(q0) :
                  \A q \in Q : EndsAtBoundary(SubSeq(q0, 1, m), q) }
        m0 == SetMax(M)
    IN  IF m0 = 0 THEN <<Separator>> ELSE SubSeq(q0, 1, m0)

\* C9: master.Scanned receives the number and summed size of the accepted
\* regular files and, when there is one, the longest prefix ending at a
\* separator boundary that all their paths share.
C9_ScannedCommonRoot ==
    scanned.called =>
        /\ scanned.numFiles = Cardinality(AcceptedIdx)
        /\ scanned.numBytes = SumSizes(AcceptedIdx)
        /\ AcceptedIdx # {} =>
              scanned.commonRootPath =
                  LongestSharedPrefix({ tree[j].path : j \in AcceptedIdx })

\* ------------------------------------------- inputs of the commonRoot runs
PathElems == { <<"a">>, <<"b">>, <<"a", "b">>, <<".">>, DotDot, <<>> }

ElemSeqs == UNION { [1..n -> PathElems] : n \in 0..MaxDepth }

RECURSIVE RawJoin(_, _, _)
RawJoin(elems, i, sep) ==
    IF i > Len(elems) THEN <<>>
    ELSE elems[i] \o (IF i < Len(elems) THEN <<sep>> ELSE <<>>)
                  \o RawJoin(elems, i + 1, sep)

\* absolute paths, not necessarily clean: "/a//b", "/a/../ab", "/a/"
PosixPaths == { <<"/">> \o RawJoin(es, 1, "/") : es \in ElemSeqs }

WindowsPaths(letter) == { <<letter, ":", "\\">> \o RawJoin(es, 1, "\\") : es \in ElemSeqs }

InitCR ==
    /\ IdleWork
    /\ IdleAux
    /\ crPc = "in"
    /\ crRes = <<>>
    /\ \/ goos = "posix" /\ pa \in PosixPaths /\ pb \in PosixPaths
       \/ /\ goos = "windows"
          /\ pa \in WindowsPaths("C")
          /\ pb \in WindowsPaths("C") \cup WindowsPaths("D")

CallCommonRoot ==
    /\ crPc = "in"
    /\ crRes' = commonRoot(pa, pb)
    /\ crPc' = "out"
    /\ UNCHANGED <<goos, pa, pb>>
    /\ UNCHANGED <<workVars, auxVars>>

NextCR == CallCommonRoot

Spec == Init /\ [][Next]_vars

SpecCR == InitCR /\ [][NextCR]_vars

\* ------------------------------------------------------------------ C10

\* positions k such that the first k characters of both cleaned paths agree
\* and the k-th is a separator after the volume name
SharedSeps(ca, cb, vlen) ==
    { k \in (vlen + 1)..Min(Len(ca), Len(cb)) :
        /\ SubSeq(ca, 1, k) = SubSeq(cb, 1, k)
        /\ ca[k] = Separator }

ExpectedCommonRoot(xa, xb) ==
    LET ca == Clean(xa)
        cb == Clean(xb)
        va == VolumeName(ca)
        vb == VolumeName(cb)
    IN  IF va # vb THEN <<>>
        ELSE IF ca = cb THEN ca
        ELSE LET k == SetMax(SharedSeps(ca, cb, Len(va)))
                 r == SubSeq(ca, 1, k - 1)
             IN  IF r = <<>> /\ goos = "posix" THEN <<"/">> ELSE r

\* C10: for absolute paths a and b, commonRoot(a,b) is "" when the volume
\* names differ, the cleaned path when both clean to the same path, otherwise
\* the longest common prefix of the cleaned paths that ends at a separator
\* ("/" on POSIX when that prefix is empty); and commonRoot(b,a) is the same.
C10_CommonRootShape ==
    crPc = "out" =>
        /\ crRes = ExpectedCommonRoot(pa, pb)
        /\ crRes = commonRoot(pb, pa)

\* both paths have the volume C:, share a directory, and neither is a prefix
\* of the other
C10_Witness ==
    /\ crPc = "out"
    /\ goos = "windows"
    /\ Clean(pa) # Clean(pb)
    /\ crRes = <<"C", ":", "\\", "a">>
    /\ Len(Clean(pa)) > Len(crRes) + 1
    /\ Len(Clean(pb)) > Len(crRes) + 1

\* ------------------------------------------------------ db.Upd (db/db.go)
MaxWidth == 2
MaxItems == 2
MaxUpds == 3

ByteVals == {0, 1}

\* a []byte: nil, or a (possibly empty) sequence of bytes
NilBytes == [isNil |-> TRUE, b |-> <<>>]

NonNil(b) == [isNil |-> FALSE, b |-> b]

\* the items of width w, and the values made of n of them
Items(w) == [1..w -> ByteVals]

Concats(w, n) == [1..(n * w) -> ByteVals]

\* the loop of Upd: the offsets 0, vsize, 2*vsize, ... below len(old)
RECURSIVE updFound(_, _, _)
updFound(value, old, i) ==
    IF i >= Len(old) THEN FALSE
    ELSE IF SubSeq(old, i + 1, i + Len(value)) = value THEN TRUE
    ELSE updFound(value, old, i + Len(value))

RECURSIVE updFoundAnyOffset(_, _, _)
updFoundAnyOffset(value, old, i) ==
    IF i + Len(value) > Len(old) THEN FALSE
    ELSE IF SubSeq(old, i + 1, i + Len(value)) = value THEN TRUE
    ELSE updFoundAnyOffset(value, old, i + 1)

\* compares the item with the first stride of old only
UpdComparesFirstStrideOnly(key, value, old) ==
    IF old.isNil THEN [value |-> NonNil(value), changed |-> TRUE, err |-> Nil, old |-> old]
    ELSE IF Len(old.b) > 0 /\ SubSeq(old.b, 1, Len(value)) = value
         THEN [value |-> NilBytes, changed |-> FALSE, err |-> Nil, old |-> old]
         ELSE [value |-> NonNil(old.b \o value), changed |-> TRUE, err |-> Nil, old |-> old]

UpdScansEveryOffset(key, value, old) ==
    IF old.isNil THEN [value |-> NonNil(value), changed |-> TRUE, err |-> Nil, old |-> old]
    ELSE IF updFoundAnyOffset(value, old.b, 0)
         THEN [value |-> NilBytes, changed |-> FALSE, err |-> Nil, old |-> old]
         ELSE [value |-> NonNil(old.b \o value), changed |-> TRUE, err |-> Nil, old |-> old]

\* Upd(key, value, old): the returned value, the changed flag, the error, and
\* old as the call leaves it (no statement of Upd writes to old[0:len(old)])
Upd(key, value, old) ==
    IF old.isNil THEN [value |-> NonNil(value), changed |-> TRUE, err |-> Nil, old |-> old]
    ELSE IF updFound(value, old.b, 0)
         THEN [value |-> NilBytes, changed |-> FALSE, err |-> Nil, old |-> old]
         ELSE [value |-> NonNil(old.b \o value), changed |-> TRUE, err |-> Nil, old |-> old]

UpdKey == <<0>>

NoUpdCall == [value |-> <<>>, old |-> NilBytes, res |-> Upd(UpdKey, <<>>, NilBytes)]

\* the stored value of one key is absent or any concatenation of items of the
\* width in use
InitUpd ==
    /\ IdleCR
    /\ IdleWork
    /\ kv = IdleKv
    /\ rf = IdleRf
    /\ ar = IdleAr
    /\ \E w \in 1..MaxWidth :
       \E st \in {NilBytes} \cup { NonNil(b) : b \in UNION { Concats(w, n) : n \in 0..MaxItems } } :
          upd = [pc |-> "run", width |-> w, stored |-> st, n |-> 0, last |-> NoUpdCall,
                 start |-> st, applied |-> <<>>]

\* the store merges one more item into the stored value through Upd and
\* writes the result back only when Upd reports a change; start is the value
\* the key had before the first call, applied the items merged so far
CallUpd ==
    /\ upd.pc = "run"
    /\ upd.n < MaxUpds
    /\ \E item \in Items(upd.width) :
          LET res == Upd(UpdKey, item, upd.stored)
          IN  upd' = [upd EXCEPT
                        !.stored = IF res.changed THEN res.value ELSE res.old,
                        !.n = @ + 1,
                        !.last = [value |-> item, old |-> upd.stored, res |-> res],
                        !.applied = Append(@, item)]
    /\ UNCHANGED <<crVars, workVars, kv, rf, ar>>

NextUpd == CallUpd

SpecUpd == InitUpd /\ [][NextUpd]_vars

\* ------------------------------------------------------------------ C11

\* the item occupies one of the strides of its own width in the value
AtSomeStride(item, b) ==
    \E j \in 0..((Len(b) \div Len(item)) - 1) :
        SubSeq(b, j * Len(item) + 1, (j + 1) * Len(item)) = item

\* C11: Upd returns (newItem, changed) when existing is absent; reports no
\* change and leaves existing as it was when some stride of existing equals
\* newItem; otherwise returns existing followed by newItem and changed.
C11_UpdMergePolicy ==
    (upd.pc = "run" /\ upd.n > 0) =>
        LET c == upd.last
        IN  /\ c.res.err = Nil
            /\ c.res.old = c.old
            /\ IF c.old.isNil
               THEN c.res.changed /\ c.res.value = NonNil(c.value)
               ELSE IF AtSomeStride(c.value, c.old.b)
                    THEN ~c.res.changed
                    ELSE c.res.changed /\ c.res.value = NonNil(c.old.b \o c.value)

\* the new item occurs in existing across a stride boundary only, and is
\* appended
C11_Witness ==
    /\ upd.pc = "run"
    /\ upd.n > 0
    /\ ~upd.last.old.isNil
    /\ Len(upd.last.old.b) = 2 * upd.width
    /\ updFoundAnyOffset(upd.last.value, upd.last.old.b, 0)
    /\ ~AtSomeStride(upd.last.value, upd.last.old.b)
    /\ upd.last.res.changed
    /\ upd.last.res.value = NonNil(upd.last.old.b \o upd.last.value)

\* ------------------------------------------------------------------ C21

\* the distinct items of a sequence of items, in the order of their first
\* occurrence
RECURSIVE FirstInsertionOrder(_, _, _)
FirstInsertionOrder(items, i, out) ==
    IF i > Len(items) THEN out
    ELSE FirstInsertionOrder(items, i + 1,
                             IF items[i] \in Range(out) THEN out ELSE Append(out, items[i]))

\* the concatenation of the items from index i on
RECURSIVE ConcatItems(_, _)
ConcatItems(items, i) ==
    IF i > Len(items) THEN <<>> ELSE items[i] \o ConcatItems(items, i + 1)

\* stride j (from 0) of width w of the value b
StrideOf(b, w, j) == SubSeq(b, j * w + 1, (j + 1) * w)

\* C21: when the key starts absent and items of one width are merged through
\* Upd, the result written back whenever changed is true, the stored value is
\* the concatenation of the distinct items merged so far in the order of
\* their first insertion, no two strides of it are equal, merging an item
\* that is already present reports changed = false, and a call reports
\* changed = true exactly for an item not merged before.
C21_UpdAccumulates ==
    (upd.pc = "run" /\ upd.start.isNil) =>
        LET seen == FirstInsertionOrder(upd.applied, 1, <<>>)
            before == SubSeq(upd.applied, 1, Len(upd.applied) - 1)
            strides == 0..((Len(upd.stored.b) \div upd.width) - 1)
        IN  /\ upd.stored = IF upd.n = 0 THEN NilBytes ELSE NonNil(ConcatItems(seen, 1))
            /\ \A i, j \in strides :
                   i # j => StrideOf(upd.stored.b, upd.width, i) # StrideOf(upd.stored.b, upd.width, j)
            /\ \A item \in Range(seen) : ~Upd(UpdKey, item, upd.stored).changed
            /\ upd.n > 0 => (upd.last.res.changed <=> upd.last.value \notin Range(before))

\* two distinct items were merged into the absent key and the second one is
\* merged again: the third call reports no change and the value stays A||B
C21_Witness ==
    /\ upd.pc = "run"
    /\ upd.start.isNil
    /\ upd.width = 2
    /\ Len(upd.applied) = 3
    /\ upd.applied[1] # upd.applied[2]
    /\ upd.applied[3] = upd.applied[2]
    /\ ~upd.last.res.changed
    /\ upd.stored = NonNil(upd.applied[1] \o upd.applied[2])

\* ------------------------------------------- kivi: the key-value store
KeySize == 1
MaxFileBytes == 8
MaxPuts == 3
\* a run opens the store at most as often as it puts
MaxOpens == MaxPuts

\* the keys of width K that the runs put and get
KvKeys(K) == { [i \in 1..K |-> b] : b \in ByteVals }

KvValues == { <<>>, <<8, 9>> }

\* the 4-byte big-endian length of a record
U32BE(n) == << (n \div 16777216) % 256, (n \div 65536) % 256, (n \div 256) % 256, n % 256 >>

FromU32BE(b) == ((b[1] * 256 + b[2]) * 256 + b[3]) * 256 + b[4]

HeaderLen(K) == K + Len(U32BE(0))

\* a record on disk: key[K], uint32be len, bytes[len]
EncodeRecord(key, value) == key \o U32BE(Len(value)) \o value

\* a keydir bucket: the data file (1 is data_0), the offset of the value
\* bytes and their length; NoEntry for an absent key
NoEntry == [file |-> 0, off |-> 0, len |-> 0]

EmptyKeydir(K) == [k \in KvKeys(K) |-> NoEntry]

\* the scan of one data file from offset off: the buckets of its complete
\* records in file order, and the offset at which the last complete record ends
RECURSIVE ScanFile(_, _, _, _, _)
ScanFile(bytes, K, fileIdx, off, acc) ==
    IF off + HeaderLen(K) > Len(bytes) THEN [entries |-> acc, end |-> off]
    ELSE LET key == SubSeq(bytes, off + 1, off + K)
             n   == FromU32BE(SubSeq(bytes, off + K + 1, off + HeaderLen(K)))
             voff == off + HeaderLen(K)
         IN  IF voff + n > Len(bytes) THEN [entries |-> acc, end |-> off]
             ELSE ScanFile(bytes, K, fileIdx, voff + n,
                           Append(acc, [key |-> key,
                                        e |-> [file |-> fileIdx, off |-> voff, len |-> n]]))

\* an earlier record wins over a later one
RECURSIVE ApplyEntriesFirstWins(_, _, _)
ApplyEntriesFirstWins(kd, entries, i) ==
    IF i > Len(entries) THEN kd
    ELSE ApplyEntriesFirstWins(
             IF kd[entries[i].key] = NoEntry
             THEN [kd EXCEPT ![entries[i].key] = entries[i].e] ELSE kd,
             entries, i + 1)

\* for each record in file order, overwrite the bucket
RECURSIVE ApplyEntries(_, _, _)
ApplyEntries(kd, entries, i) ==
    IF i > Len(entries) THEN kd
    ELSE ApplyEntries([kd EXCEPT ![entries[i].key] = entries[i].e], entries, i + 1)

\* the sidecar keydir_i: the buckets that point into data_i, and the size of
\* data_i they were written for
NoSidecar == [present |-> FALSE, size |-> 0, table |-> <<>>]

SidecarOf(kd, fileIdx, size) ==
    [present |-> TRUE, size |-> size,
     table |-> [k \in DOMAIN kd |-> IF kd[k].file = fileIdx THEN kd[k] ELSE NoEntry]]

\* the buckets loaded from earlier files win
MergeTableKeepsOld(kd, table) ==
    [k \in DOMAIN kd |-> IF kd[k] # NoEntry THEN kd[k] ELSE table[k]]

MergeTable(kd, table) ==
    [k \in DOMAIN kd |-> IF table[k] # NoEntry THEN table[k] ELSE kd[k]]

\* a sidecar that is there is loaded whatever the data file has become
SidecarAlwaysUsable(sc, bytes) == sc.present

\* a sidecar is loaded when it is there and was written for the data file as
\* it is now; otherwise the file is scanned
SidecarUsable(sc, bytes) == sc.present /\ sc.size = Len(bytes)

RebuildFileFirstWins(kd, bytes, K, fileIdx) ==
    ApplyEntriesFirstWins(kd, ScanFile(bytes, K, fileIdx, 0, <<>>).entries, 1)

\* the rebuild of the buckets of one data file by scanning it
RebuildFile(kd, bytes, K, fileIdx) ==
    ApplyEntries(kd, ScanFile(bytes, K, fileIdx, 0, <<>>).entries, 1)

\* the keydir after the data files 1..Len(files) have been loaded in order
RECURSIVE LoadKeydir(_, _, _, _, _)
LoadKeydir(files, sidecars, K, i, kd) ==
    IF i > Len(files) THEN kd
    ELSE LoadKeydir(files, sidecars, K, i + 1,
             IF SidecarUsable(sidecars[i], files[i])
             THEN MergeTable(kd, sidecars[i].table)
             ELSE RebuildFile(kd, files[i], K, i))

\* the highest-numbered data file is emptied
TruncateTailToEmpty(files, K) ==
    [i \in 1..Len(files) |-> IF i = Len(files) THEN <<>> ELSE files[i]]

\* the data files after the partial tail record of the last one has been cut
\* back to the last complete record boundary
TruncateTail(files, K) ==
    [i \in 1..Len(files) |->
        IF i = Len(files)
        THEN SubSeq(files[i], 1, ScanFile(files[i], K, i, 0, <<>>).end)
        ELSE files[i]]

\* a record length that exceeds the file before the last data file cannot be
\* reconciled by tail truncation
CorruptStore(files, K) ==
    \E i \in 1..(Len(files) - 1) : ScanFile(files[i], K, i, 0, <<>>).end # Len(files[i])

\* get: the value bytes the bucket of the key points to
NoValue == [found |-> FALSE, value |-> <<>>]

\* the bytes are read from the start of the record
GetFromRecordStart(files, kd, key) ==
    IF kd[key] = NoEntry THEN NoValue
    ELSE [found |-> TRUE,
          value |-> SubSeq(files[kd[key].file], kd[key].off - HeaderLen(Len(key)) + 1,
                           kd[key].off - HeaderLen(Len(key)) + kd[key].len)]

Get(files, kd, key) ==
    IF kd[key] = NoEntry THEN NoValue
    ELSE [found |-> TRUE,
          value |-> SubSeq(files[kd[key].file], kd[key].off + 1, kd[key].off + kd[key].len)]

\* ------------------------------------------------ kivi: the operations
NoKey == <<>>

NoGot == [key |-> NoKey, res |-> NoValue]

\* a fresh root: no data file, no sidecar, no handle
InitKv ==
    /\ IdleCR
    /\ IdleWork
    /\ upd = IdleUpd
    /\ rf = IdleRf
    /\ ar = IdleAr
    /\ kv = [pc |-> "run", K |-> KeySize, files |-> <<>>, sidecars |-> <<>>, synced |-> 0,
             open |-> FALSE, keydir |-> EmptyKeydir(KeySize), err |-> "nil",
             puts |-> <<>>, nPuts |-> 0, nOpens |-> 0,
             wiped |-> FALSE, crashed |-> FALSE, partialKey |-> NoKey, got |-> NoGot]

\* Open(root, keySize): discover the data files, cut a partial tail record,
\* load or rebuild the keydir, append to the highest-numbered data file
KvOpen ==
    /\ kv.pc = "run"
    /\ ~kv.open
    /\ kv.nOpens < MaxOpens
    /\ IF CorruptStore(kv.files, kv.K)
       THEN kv' = [kv EXCEPT !.err = "CorruptStore", !.nOpens = @ + 1]
       ELSE LET fs == IF kv.files = <<>> THEN << <<>> >> ELSE TruncateTail(kv.files, kv.K)
                sc == IF kv.files = <<>> THEN << NoSidecar >> ELSE kv.sidecars
            IN  kv' = [kv EXCEPT
                         !.files = fs,
                         !.sidecars = sc,
                         !.synced = Len(fs[Len(fs)]),
                         !.open = TRUE,
                         !.keydir = LoadKeydir(fs, sc, kv.K, 1, EmptyKeydir(kv.K)),
                         !.err = "nil",
                         !.nOpens = @ + 1,
                         !.got = NoGot]
    /\ UNCHANGED <<crVars, workVars, upd, rf, ar>>

\* the rollover of put: write keydir_i for the full file and open data_{i+1}
Rollover(st) ==
    LET a == Len(st.files)
    IN  [st EXCEPT
           !.sidecars = Append([@ EXCEPT ![a] = SidecarOf(st.keydir, a, Len(st.files[a]))],
                               NoSidecar),
           !.files = Append(@, <<>>),
           !.synced = 0]

\* Put(key, value): roll the active file when its size exceeds the cap, append
\* the record and rebind the bucket
KvPut ==
    /\ kv.pc = "run"
    /\ kv.open
    /\ kv.nPuts < MaxPuts
    /\ \E key \in KvKeys(kv.K) : \E value \in KvValues :
          LET st  == IF Len(kv.files[Len(kv.files)]) > MaxFileBytes THEN Rollover(kv) ELSE kv
              a   == Len(st.files)
              off == Len(st.files[a]) + HeaderLen(kv.K)
          IN  kv' = [st EXCEPT
                       !.files[a] = @ \o EncodeRecord(key, value),
                       !.keydir[key] = [file |-> a, off |-> off, len |-> Len(value)],
                       !.puts = Append(@, [key |-> key, value |-> value, file |-> a,
                                           end |-> off + Len(value), session |-> kv.nOpens]),
                       !.nPuts = @ + 1,
                       !.wiped = FALSE,
                       !.crashed = FALSE,
                       !.partialKey = NoKey,
                       !.got = NoGot]
    /\ UNCHANGED <<crVars, workVars, upd, rf, ar>>

\* Get(key)
KvGet ==
    /\ kv.pc = "run"
    /\ kv.open
    /\ \E key \in KvKeys(kv.K) :
          kv' = [kv EXCEPT !.got = [key |-> key, res |-> Get(kv.files, kv.keydir, key)]]
    /\ UNCHANGED <<crVars, workVars, upd, rf, ar>>

\* flush: fsync the active data file and write its keydir sidecar
Flushed(st) ==
    LET a == Len(st.files)
    IN  [st EXCEPT !.synced = Len(st.files[a]),
                   !.sidecars[a] = SidecarOf(st.keydir, a, Len(st.files[a]))]

KvFlush ==
    /\ kv.pc = "run"
    /\ kv.open
    /\ kv' = [Flushed(kv) EXCEPT !.got = NoGot]
    /\ kv' # kv
    /\ UNCHANGED <<crVars, workVars, upd, rf, ar>>

\* close: flush, then release the file handles and the in-memory keydir
KvClose ==
    /\ kv.pc = "run"
    /\ kv.open
    /\ kv' = [Flushed(kv) EXCEPT
                !.open = FALSE,
                !.keydir = EmptyKeydir(kv.K),
                !.wiped = FALSE,
                !.crashed = FALSE,
                !.partialKey = NoKey,
                !.got = NoGot]
    /\ UNCHANGED <<crVars, workVars, upd, rf, ar>>

\* the process dies: of the bytes appended since the last flush any prefix
\* has reached the disk
KvCrash ==
    /\ kv.pc = "run"
    /\ kv.open
    /\ LET a == Len(kv.files)
       IN  \E n \in kv.synced..Len(kv.files[a]) :
              LET kept == SelectSeq(kv.puts, LAMBDA h : h.file < a \/ h.end <= n)
                  cut  == { j \in 1..Len(kv.puts) :
                              /\ kv.puts[j].file = a
                              /\ kv.puts[j].end > n
                              /\ kv.puts[j].end - Len(kv.puts[j].value) - HeaderLen(kv.K) < n }
              IN  kv' = [kv EXCEPT
                           !.files[a] = SubSeq(@, 1, n),
                           !.open = FALSE,
                           !.keydir = EmptyKeydir(kv.K),
                           !.puts = kept,
                           !.crashed = TRUE,
                           !.wiped = FALSE,
                           !.partialKey = IF cut = {} THEN NoKey
                                          ELSE kv.puts[CHOOSE j \in cut : TRUE].key,
                           !.got = NoGot]
    /\ UNCHANGED <<crVars, workVars, upd, rf, ar>>

\* every keydir_* sidecar is removed while the store is closed
KvDeleteKeydirs ==
    /\ kv.pc = "run"
    /\ ~kv.open
    /\ \E i \in 1..Len(kv.sidecars) : kv.sidecars[i].present
    /\ kv' = [kv EXCEPT
                !.sidecars = [i \in 1..Len(kv.sidecars) |-> NoSidecar],
                !.wiped = TRUE]
    /\ UNCHANGED <<crVars, workVars, upd, rf, ar>>

NextKv ==
    \/ KvOpen
    \/ KvPut
    \/ KvGet
    \/ KvFlush
    \/ KvClose
    \/ KvCrash
    \/ KvDeleteKeydirs

SpecKv == InitKv /\ [][NextKv]_vars

\* ------------------------------------------------------------ C12 .. C16

\* the value of the last put of the key among puts[1..i]
RECURSIVE LastPut(_, _, _)
LastPut(puts, key, i) ==
    IF i = 0 THEN NoValue
    ELSE IF puts[i].key = key THEN [found |-> TRUE, value |-> puts[i].value]
    ELSE LastPut(puts, key, i - 1)

KeysPut == { kv.puts[i].key : i \in 1..Len(kv.puts) }

AllFlushed == kv.synced = Len(kv.files[Len(kv.files)])

GetNow(key) == Get(kv.files, kv.keydir, key)

\* C12: after pairs with pairwise distinct keys have been put and flushed,
\* get of each key returns exactly its value and get of a key never put
\* returns absent.
C12_PutGetRoundTrip ==
    (kv.pc = "run" /\ kv.open /\ AllFlushed /\ Cardinality(KeysPut) = Len(kv.puts)) =>
        /\ \A i \in 1..Len(kv.puts) :
              GetNow(kv.puts[i].key) = [found |-> TRUE, value |-> kv.puts[i].value]
        /\ \A key \in KvKeys(kv.K) \ KeysPut : GetNow(key) = NoValue
        /\ kv.got.key # NoKey => kv.got.res = GetNow(kv.got.key)

\* two keys put and flushed, and get has returned the value of the first
C12_Witness ==
    /\ kv.pc = "run"
    /\ kv.open
    /\ AllFlushed
    /\ Len(kv.puts) = 2
    /\ kv.puts[1].key # kv.puts[2].key
    /\ kv.puts[1].value # kv.puts[2].value
    /\ kv.got = [key |-> kv.puts[1].key,
                 res |-> [found |-> TRUE, value |-> kv.puts[1].value]]

\* C13: after any sequence of puts get returns the value of the most recently
\* written record of the key, also when its records lie in different data
\* files and after rollover.
C13_LastWriterWins ==
    (kv.pc = "run" /\ kv.open) =>
        /\ \A key \in KvKeys(kv.K) : GetNow(key) = LastPut(kv.puts, key, Len(kv.puts))
        /\ kv.got.key # NoKey => kv.got.res = LastPut(kv.puts, kv.got.key, Len(kv.puts))

\* one key written to data_0 and again, with another value, to data_1, read
\* back after a reopen
C13_Witness ==
    /\ kv.pc = "run"
    /\ kv.open
    /\ kv.nOpens > 1
    /\ \E i \in 1..Len(kv.puts) : \E j \in 1..Len(kv.puts) :
          /\ i < j
          /\ kv.puts[i].key = kv.puts[j].key
          /\ kv.puts[i].file < kv.puts[j].file
          /\ kv.puts[i].value # kv.puts[j].value
          /\ kv.got = [key |-> kv.puts[j].key,
                       res |-> LastPut(kv.puts, kv.puts[j].key, Len(kv.puts))]

\* the keydir rebuilt from the data files alone
RebuiltKeydir(files, K) ==
    LoadKeydir(files, [i \in 1..Len(files) |-> NoSidecar], K, 1, EmptyKeydir(K))

\* C14: after the sidecars are deleted and the store is reopened every key
\* returns its last value, and the keydir rebuilt by scanning the data files
\* in order equals the keydir that the puts maintain.
C14_KeydirRecoverable ==
    (kv.pc = "run" /\ kv.open) =>
        /\ kv.keydir = RebuiltKeydir(kv.files, kv.K)
        /\ kv.wiped =>
              \A key \in KvKeys(kv.K) : GetNow(key) = LastPut(kv.puts, key, Len(kv.puts))

\* a store of two data files with one key in both, closed, its sidecars
\* deleted, reopened and read
C14_Witness ==
    /\ kv.pc = "run"
    /\ kv.open
    /\ kv.wiped
    /\ ~kv.crashed
    /\ Len(kv.files) = 2
    /\ \E i \in 1..Len(kv.puts) : \E j \in 1..Len(kv.puts) :
          /\ kv.puts[i].key = kv.puts[j].key
          /\ kv.puts[i].file < kv.puts[j].file
          /\ kv.got = [key |-> kv.puts[j].key,
                       res |-> [found |-> TRUE, value |-> kv.puts[j].value]]

\* the bytes of the record of a put lie in its data file where it was written
RecordInPlace(h) ==
    /\ h.file <= Len(kv.files)
    /\ h.end <= Len(kv.files[h.file])
    /\ SubSeq(kv.files[h.file], h.end - Len(h.value) - HeaderLen(kv.K) + 1, h.end)
          = EncodeRecord(h.key, h.value)

\* C15: over any sequence of open / put / close sessions the records written
\* in earlier sessions are neither lost nor altered, and after a later open
\* get returns every key put in an earlier session with its value.
C15_PersistsAcrossSessions ==
    kv.pc = "run" =>
        /\ \A i \in 1..Len(kv.puts) : RecordInPlace(kv.puts[i])
        /\ kv.open =>
              \A i \in 1..Len(kv.puts) :
                  kv.puts[i].session < kv.nOpens =>
                      GetNow(kv.puts[i].key) = LastPut(kv.puts, kv.puts[i].key, Len(kv.puts))

\* the third session reads a key of the first, after the second has put
\* another key
C15_Witness ==
    /\ kv.pc = "run"
    /\ kv.open
    /\ ~kv.crashed
    /\ ~kv.wiped
    /\ kv.nOpens = 3
    /\ Len(kv.puts) = 2
    /\ kv.puts[1].session = 1
    /\ kv.puts[2].session = 2
    /\ kv.puts[1].key # kv.puts[2].key
    /\ kv.got = [key |-> kv.puts[1].key,
                 res |-> [found |-> TRUE, value |-> kv.puts[1].value]]

\* the last data file ends at a record boundary
TailComplete ==
    LET a == Len(kv.files)
    IN  ScanFile(kv.files[a], kv.K, a, 0, <<>>).end = Len(kv.files[a])

MaxBatchSize == 10485760

MaxDatFiles == 3

DatIds == {"X", "Y", "Z"}

\* the DATs a store can index before the refresh
SeedIds == {"X", "Y"}

\* the bytes a DAT adds to a batch when it is indexed
DatBytes(d) ==
    CASE d = "X" -> MaxBatchSize
      [] d = "Y" -> MaxBatchSize - 1
      [] OTHER   -> 2

\* the files a dats directory can hold, in walk order: the catalogs of the
\* DATs, a catalog the parser rejects and a file that is no catalog
DatFile(name, ext, dat, parses) == [name |-> name, ext |-> ext, dat |-> dat, parses |-> parses]

DatsDir ==
    << DatFile("X", ".dat", "X", TRUE),
       DatFile("Y", ".dat", "Y", TRUE),
       DatFile("Z", ".xml", "Z", TRUE),
       DatFile("bad", ".dat", "", FALSE),
       DatFile("readme", ".txt", "", FALSE) >>

\* refreshMaster.Accept
refreshAccept(f) == f.ext = ".dat" \/ f.ext = ".xml"

OrphanErr == [kind |-> "orphan", id |-> 0]

FlushErr == [kind |-> "flush", id |-> 0]

ParseErr == [kind |-> "parse", id |-> 0]

IndexErr == [kind |-> "index", id |-> 0]

EndErr == [kind |-> "enddat", id |-> 0]

\* the DAT store: which DATs it indexes and which of them carry the orphan mark
DatAbsent == [present |-> FALSE, orphan |-> FALSE]

DatIndexed == [present |-> TRUE, orphan |-> FALSE]

\* romdb.OrphanDats: every indexed DAT becomes an orphan candidate
OrphanDats(dats) ==
    [d \in DOMAIN dats |-> [present |-> dats[d].present, orphan |-> dats[d].present]]

\* romdb.EndDatRefresh: the DATs still marked are removed
EndDatRefresh(dats) ==
    [d \in DOMAIN dats |-> IF dats[d].orphan THEN DatAbsent ELSE dats[d]]

\* romdb.GetDat
GetDat(dats, d) == IF dats[d].present THEN d ELSE ""

\* a batch: the DATs it has accumulated and not yet written, and their size
NewBatch == [pending |-> {}, size |-> 0]

\* the writes of a batch reach the store: each DAT is indexed and loses its mark
ApplyBatch(dats, b) == [d \in DOMAIN dats |-> IF d \in b.pending THEN DatIndexed ELSE dats[d]]

\* batch.IndexDat
BatchIndexDat(b, d) == [pending |-> b.pending \cup {d}, size |-> b.size + DatBytes(d)]

NoProcessCall ==
    [called |-> FALSE, size |-> 0, flushed |-> FALSE, parsed |-> FALSE, indexCalls |-> 0,
     err |-> Nil]

\* a Process that flushes only a batch larger than MaxBatchSize
refreshProcessFlushAbove(b, dats, f, flushOK, indexOK) ==
    LET needFlush == b.size > MaxBatchSize
        obs == [called |-> TRUE, size |-> b.size, flushed |-> needFlush, parsed |-> FALSE,
                indexCalls |-> 0, err |-> Nil]
    IN  IF needFlush /\ ~flushOK
        THEN [batch |-> b, dats |-> dats, indexed |-> {},
              obs |-> [obs EXCEPT !.err = FlushErr]]
        ELSE LET b1 == IF needFlush THEN NewBatch ELSE b
                 d1 == IF needFlush THEN ApplyBatch(dats, b) ELSE dats
             IN  IF ~f.parses
                 THEN [batch |-> b1, dats |-> d1, indexed |-> {},
                       obs |-> [obs EXCEPT !.parsed = TRUE, !.err = ParseErr]]
                 ELSE IF ~indexOK
                 THEN [batch |-> b1, dats |-> d1, indexed |-> {},
                       obs |-> [obs EXCEPT !.parsed = TRUE, !.indexCalls = 1,
                                           !.err = IndexErr]]
                 ELSE [batch |-> BatchIndexDat(b1, f.dat), dats |-> d1, indexed |-> {f.dat},
                       obs |-> [obs EXCEPT !.parsed = TRUE, !.indexCalls = 1]]

\* refreshWorker.Process on the file f with the batch b: the batch and the
\* store afterwards, the DAT indexed, and what the call did (flushOK and
\* indexOK are the outcomes of batch.Flush and batch.IndexDat)
refreshProcess(b, dats, f, flushOK, indexOK) ==
    LET needFlush == b.size >= MaxBatchSize
        obs == [called |-> TRUE, size |-> b.size, flushed |-> needFlush, parsed |-> FALSE,
                indexCalls |-> 0, err |-> Nil]
    IN  IF needFlush /\ ~flushOK
        THEN [batch |-> b, dats |-> dats, indexed |-> {},
              obs |-> [obs EXCEPT !.err = FlushErr]]
        ELSE LET b1 == IF needFlush THEN NewBatch ELSE b
                 d1 == IF needFlush THEN ApplyBatch(dats, b) ELSE dats
             IN  IF ~f.parses
                 THEN [batch |-> b1, dats |-> d1, indexed |-> {},
                       obs |-> [obs EXCEPT !.parsed = TRUE, !.err = ParseErr]]
                 ELSE IF ~indexOK
                 THEN [batch |-> b1, dats |-> d1, indexed |-> {},
                       obs |-> [obs EXCEPT !.parsed = TRUE, !.indexCalls = 1,
                                           !.err = IndexErr]]
                 ELSE [batch |-> BatchIndexDat(b1, f.dat), dats |-> d1, indexed |-> {f.dat},
                       obs |-> [obs EXCEPT !.parsed = TRUE, !.indexCalls = 1]]

NoRfWorker == [pc |-> "none", item |-> 0, batch |-> NewBatch, perr |-> Nil]

NoCalls ==
    [orphan |-> 0, begin |-> 0, startBatch |-> 0, indexDat |-> 0, batchClose |-> 0,
     dbFlush |-> 0, endDat |-> 0]

\* (last is what the Process call that has just returned did: the next step
\* of any other kind clears it)
\* Refresh is called on a store that indexes some DATs, over a directory that
\* holds some of the files
InitRf ==
    /\ IdleCR
    /\ IdleWork
    /\ upd = IdleUpd
    /\ kv = IdleKv
    /\ ar = IdleAr
    /\ \E S \in SUBSET SeedIds :
       \E F \in SUBSET (1..Len(DatsDir)) :
       \E n \in 0..MaxWorkers :
          /\ Cardinality(F) <= MaxDatFiles
          /\ rf = [pc |-> "orphan",
                   seed |-> S,
                   dats |-> [d \in DatIds |-> IF d \in S THEN DatIndexed ELSE DatAbsent],
                   dir |-> SelectSeq(DatsDir, LAMBDA f : \E j \in F : DatsDir[j] = f),
                   numWorkers |-> n,
                   loopI |-> 0,
                   pos |-> 1,
                   w |-> [s \in 1..n |-> NoRfWorker],
                   last |-> NoProcessCall,
                   closeC |-> <<>>,
                   perr |-> Nil,
                   returned |-> FALSE,
                   result |-> Nil,
                   indexed |-> {},
                   orphanFailed |-> FALSE,
                   closeFailed |-> FALSE,
                   calls |-> NoCalls]

RfReturn(st, err) == [st EXCEPT !.pc = "done", !.returned = TRUE, !.result = err]

\* a Refresh that goes on after OrphanDats has failed
RfOrphanDatsIgnoresError ==
    /\ rf.pc = "orphan"
    /\ \E ok \in BOOLEAN :
          rf' = [rf EXCEPT !.calls.orphan = @ + 1,
                           !.dats = IF ok THEN OrphanDats(rf.dats) ELSE @,
                           !.orphanFailed = ~ok,
                           !.pc = "start"]
    /\ UNCHANGED <<crVars, workVars, upd, kv, ar>>

\* Refresh: romdb.OrphanDats, and the return of its error
RfOrphanDats ==
    /\ rf.pc = "orphan"
    /\ \E ok \in BOOLEAN :
          rf' = IF ok
                THEN [rf EXCEPT !.calls.orphan = @ + 1,
                                !.dats = OrphanDats(rf.dats),
                                !.pc = "start"]
                ELSE RfReturn([rf EXCEPT !.calls.orphan = @ + 1, !.orphanFailed = TRUE],
                              OrphanErr)
    /\ UNCHANGED <<crVars, workVars, upd, kv, ar>>

\* Work: master.Start, which is romdb.BeginDatRefresh
RfStart ==
    /\ rf.pc = "start"
    /\ \E ok \in BOOLEAN :
          rf' = IF ok
                THEN [rf EXCEPT !.calls.begin = @ + 1, !.pc = "scan"]
                ELSE RfReturn([rf EXCEPT !.calls.begin = @ + 1], StartErr)
    /\ UNCHANGED <<crVars, workVars, upd, kv, ar>>

\* Work: filepath.Abs of a relative datsPath, then the counting walk and
\* master.Scanned, which touch neither the store nor a batch
RfScan ==
    /\ rf.pc = "scan"
    /\ \E ok \in BOOLEAN :
          rf' = IF ok THEN [rf EXCEPT !.pc = "spawn"] ELSE RfReturn(rf, AbsErr)
    /\ UNCHANGED <<crVars, workVars, upd, kv, ar>>

\* Work: the spawn loop; master.NewWorker is romdb.StartBatch
RfSpawn ==
    /\ rf.pc = "spawn"
    /\ IF rf.loopI < rf.numWorkers
       THEN rf' = [rf EXCEPT !.w[rf.loopI + 1] = [NoRfWorker EXCEPT !.pc = "idle"],
                             !.calls.startBatch = @ + 1,
                             !.loopI = @ + 1]
       ELSE rf' = [rf EXCEPT !.pc = "dispatch", !.loopI = 0]
    /\ UNCHANGED <<crVars, workVars, upd, kv, ar>>

\* Work: one callback of the dispatch walk; an accepted file is handed to a
\* worker that waits on the work channel
RfDispatch ==
    /\ rf.pc = "dispatch"
    /\ rf.pos <= Len(rf.dir)
    /\ IF refreshAccept(rf.dir[rf.pos])
       THEN \E s \in 1..rf.numWorkers :
               /\ rf.w[s].pc = "idle"
               /\ rf' = [rf EXCEPT !.w[s].pc = "got", !.w[s].item = rf.pos, !.pos = @ + 1,
                                        !.last = NoProcessCall]
       ELSE rf' = [rf EXCEPT !.pos = @ + 1, !.last = NoProcessCall]
    /\ UNCHANGED <<crVars, workVars, upd, kv, ar>>

\* Work: close(inwork) after the walk
RfCloseInwork ==
    /\ rf.pc = "dispatch"
    /\ rf.pos > Len(rf.dir)
    /\ rf' = [rf EXCEPT !.pc = IF rf.numWorkers = 0 THEN "finishup" ELSE "collect",
                         !.last = NoProcessCall]
    /\ UNCHANGED <<crVars, workVars, upd, kv, ar>>

\* runSlave: refreshWorker.Process on the unit received
RfProcess(s) ==
    /\ rf.w[s].pc = "got"
    /\ \E flushOK \in BOOLEAN : \E indexOK \in BOOLEAN :
          LET r == refreshProcess(rf.w[s].batch, rf.dats, rf.dir[rf.w[s].item],
                                  flushOK, indexOK)
          IN  /\ (~flushOK) => (r.obs.flushed /\ r.obs.err = FlushErr)
              /\ (~indexOK) => r.obs.err = IndexErr
              /\ rf' = [rf EXCEPT
                          !.w[s].pc = "idle",
                          !.w[s].item = 0,
                          !.w[s].batch = r.batch,
                          !.w[s].perr = IF @ = Nil THEN r.obs.err ELSE @,
                          !.last = r.obs,
                          !.dats = r.dats,
                          !.indexed = @ \cup r.indexed,
                          !.calls.indexDat = @ + r.obs.indexCalls]
    /\ UNCHANGED <<crVars, workVars, upd, kv, ar>>

\* runSlave after the work channel is closed: refreshWorker.Close, whose error
\* is logged only, then the send of perr; a batch.Close that fails has not
\* written what the batch held
RfClose(s) ==
    /\ rf.pc = "collect"
    /\ rf.w[s].pc = "idle"
    /\ \E ok \in BOOLEAN :
          rf' = [rf EXCEPT
                   !.w[s].pc = "exited",
                   !.w[s].batch = NewBatch,
                   !.last = NoProcessCall,
                   !.dats = IF ok THEN ApplyBatch(rf.dats, rf.w[s].batch) ELSE @,
                   !.closeFailed = @ \/ ~ok,
                   !.calls.batchClose = @ + 1,
                   !.closeC = Append(@, rf.w[s].perr)]
    /\ UNCHANGED <<crVars, workVars, upd, kv, ar>>

\* Work: the receive loop over closeC
RfCollect ==
    /\ rf.pc = "collect"
    /\ rf.closeC # <<>>
    /\ rf' = [rf EXCEPT
                !.closeC = Tail(@),
                !.perr = IF @ = Nil THEN Head(rf.closeC) ELSE @,
                !.loopI = @ + 1,
                !.pc = IF rf.loopI + 1 = rf.numWorkers THEN "finishup" ELSE @]
    /\ UNCHANGED <<crVars, workVars, upd, kv, ar>>

\* refreshMaster.FinishUp: romdb.Flush
RfDbFlush ==
    /\ rf.pc = "finishup"
    /\ rf' = [rf EXCEPT !.calls.dbFlush = @ + 1, !.pc = "enddat"]
    /\ UNCHANGED <<crVars, workVars, upd, kv, ar>>

\* refreshMaster.FinishUp: romdb.EndDatRefresh, and the return of Work
RfEndDatRefresh ==
    /\ rf.pc = "enddat"
    /\ \E ok \in BOOLEAN :
          rf' = IF ok
                THEN RfReturn([rf EXCEPT !.calls.endDat = @ + 1,
                                         !.dats = EndDatRefresh(rf.dats)], rf.perr)
                ELSE RfReturn([rf EXCEPT !.calls.endDat = @ + 1], EndErr)
    /\ UNCHANGED <<crVars, workVars, upd, kv, ar>>

NextRf ==
    \/ RfOrphanDats
    \/ RfStart
    \/ RfScan
    \/ RfSpawn
    \/ RfDispatch
    \/ RfCloseInwork
    \/ \E s \in 1..rf.numWorkers : RfProcess(s)
    \/ \E s \in 1..rf.numWorkers : RfClose(s)
    \/ RfCollect
    \/ RfDbFlush
    \/ RfEndDatRefresh

SpecRefresh == InitRf /\ [][NextRf]_vars

\* ------------------------------------------------------------------ C17

AcceptedDats == { rf.dir[j].name : j \in { i \in 1..Len(rf.dir) : refreshAccept(rf.dir[i]) } }

C19_RefreshCallOrder ==
    rf.pc # "idle" =>
        /\ rf.calls.orphan = 0 => rf.calls = NoCalls
        /\ rf.orphanFailed =>
              /\ rf.returned
              /\ rf.result = OrphanErr
              /\ rf.calls.begin = 0
              /\ rf.calls.startBatch = 0
              /\ rf.calls.endDat = 0
        /\ (rf.calls.startBatch > 0 \/ rf.calls.indexDat > 0) => rf.calls.begin = 1
        /\ rf.calls.dbFlush > 0 =>
              /\ rf.calls.startBatch = rf.numWorkers
              /\ rf.calls.batchClose = rf.numWorkers
              /\ \A s \in 1..rf.numWorkers : rf.w[s].pc = "exited"
        /\ rf.calls.endDat > 0 => rf.calls.dbFlush = 1

\* a refresh with two workers, both of which indexed a DAT, has ended its epoch
C19_Witness ==
    /\ rf.pc = "done"
    /\ rf.numWorkers = 2
    /\ rf.calls.orphan = 1
    /\ rf.calls.begin = 1
    /\ rf.calls.startBatch = 2
    /\ rf.calls.indexDat = 2
    /\ rf.calls.batchClose = 2
    /\ rf.calls.dbFlush = 1
    /\ rf.calls.endDat = 1

\* ------------------------------------------------------------------ C20

\* C20 as stated: Process flushes its batch exactly when the batch's size
\* exceeds MaxBatchSize, and a call that succeeds has parsed the file and
\* called IndexDat once.
C20_FlushOnlyAboveMax ==
    rf.last.called =>
        /\ rf.last.flushed <=> rf.last.size > MaxBatchSize
        /\ rf.last.err = Nil => (rf.last.parsed /\ rf.last.indexCalls = 1)

\* C20: Process flushes its batch exactly when the batch's size is at least
\* MaxBatchSize; when the flush fails it returns without parsing; otherwise
\* it parses the file and, when the parse succeeds, calls IndexDat once.
C20_FlushAtOrAboveMax ==
    rf.last.called =>
        /\ rf.last.flushed <=> rf.last.size >= MaxBatchSize
        /\ rf.last.err = FlushErr => (~rf.last.parsed /\ rf.last.indexCalls = 0)
        /\ rf.last.err # FlushErr =>
              /\ rf.last.parsed
              /\ rf.last.indexCalls = IF rf.last.err = ParseErr THEN 0 ELSE 1

\* a batch of exactly MaxBatchSize bytes was flushed, and the file indexed
C20_Witness ==
    /\ rf.last.called
    /\ rf.last.size = MaxBatchSize
    /\ rf.last.flushed
    /\ rf.last.indexCalls = 1
    /\ rf.last.err = Nil

\* --------------------------------------------- archive (package archive)
MaxInput == 2

MkdirErr == [kind |-> "mkdir", id |-> 0]

CreateErr == [kind |-> "create", id |-> 0]

CopyErr == [kind |-> "copy", id |-> 0]

RECURSIVE SumBytes(_, _)
SumBytes(b, i) == IF i > Len(b) THEN 0 ELSE b[i] + SumBytes(b, i + 1)

\* what the compressing writer emits: a header when it is created, one coded
\* byte per byte written, and on Close a trailer with checksum and length
GzHeader == <<"gz">>

GzCode(b) == [i \in 1..Len(b) |-> b[i] + 100]

GzTrailer(b) == <<"crc", SumBytes(b, 1) % 256, Len(b)>>

CompressedStream(b) == GzHeader \o GzCode(b) \o GzTrailer(b)

\* the deferred calls run first in, first out
PopDeferredFifo(stack) == [call |-> Head(stack), rest |-> Tail(stack)]

\* the deferred calls of a returning function run last in, first out
PopDeferred(stack) == [call |-> stack[Len(stack)], rest |-> SubSeq(stack, 1, Len(stack) - 1)]

\* archive(outpath, r) is called with a reader that holds some bytes
InitAr ==
    /\ IdleCR
    /\ IdleWork
    /\ upd = IdleUpd
    /\ kv = IdleKv
    /\ rf = IdleRf
    /\ \E b \in UNION { [1..n -> ByteVals] : n \in 0..MaxInput } :
          ar = [pc |-> "mkdir", input |-> b, rd |-> 0,
                zipOpen |-> FALSE, zipHeld |-> <<>>,
                bufHeld |-> <<>>,
                fileOpen |-> FALSE, fileBytes |-> <<>>, created |-> FALSE,
                defers |-> <<>>, released |-> <<>>, lost |-> FALSE,
                returned |-> FALSE, err |-> Nil]

\* os.MkdirAll(filepath.Dir(outpath), 0777)
ArMkdirAll ==
    /\ ar.pc = "mkdir"
    /\ \E ok \in BOOLEAN :
          ar' = IF ok THEN [ar EXCEPT !.pc = "create"]
                ELSE [ar EXCEPT !.pc = "done", !.returned = TRUE, !.err = MkdirErr]
    /\ UNCHANGED <<crVars, workVars, upd, kv, rf>>

\* os.Create(outpath), then the writers and their deferred calls
ArCreate ==
    /\ ar.pc = "create"
    /\ \E ok \in BOOLEAN :
          ar' = IF ok
                THEN [ar EXCEPT !.pc = "copy",
                                !.created = TRUE,
                                !.fileOpen = TRUE,
                                !.zipOpen = TRUE,
                                !.zipHeld = GzHeader,
                                !.defers = <<"outfile.Close", "bufout.Flush",
                                             "zipWriter.Close">>]
                ELSE [ar EXCEPT !.pc = "done", !.returned = TRUE, !.err = CreateErr]
    /\ UNCHANGED <<crVars, workVars, upd, kv, rf>>

\* the bytes move down when a buffer is full: from the compressing writer to
\* the buffered writer, from the buffered writer to the file
PushDown(st, zipFull, bufFull) ==
    LET s1 == IF zipFull THEN [st EXCEPT !.bufHeld = @ \o st.zipHeld, !.zipHeld = <<>>] ELSE st
    IN  IF bufFull THEN [s1 EXCEPT !.fileBytes = @ \o s1.bufHeld, !.bufHeld = <<>>] ELSE s1

\* io.Copy(zipWriter, br): one read and the write of what was read; the copy
\* ends at the end of the input or at the first error
ArCopy ==
    /\ ar.pc = "copy"
    /\ \/ /\ ar.rd < Len(ar.input)
          /\ \E zipFull \in BOOLEAN : \E bufFull \in BOOLEAN :
                ar' = PushDown([ar EXCEPT !.rd = @ + 1,
                                          !.zipHeld = @ \o GzCode(<<ar.input[ar.rd + 1]>>)],
                               zipFull, bufFull)
       \/ /\ ar.rd < Len(ar.input)
          /\ ar' = [ar EXCEPT !.pc = "return", !.err = CopyErr]
       \/ /\ ar.rd = Len(ar.input)
          /\ ar' = [ar EXCEPT !.pc = "return"]
    /\ UNCHANGED <<crVars, workVars, upd, kv, rf>>

\* the effect of one deferred call; a write to a closed file is lost
RunDeferred(st, call) ==
    CASE call = "zipWriter.Close" ->
            [st EXCEPT !.zipOpen = FALSE,
                       !.zipHeld = <<>>,
                       !.bufHeld = @ \o st.zipHeld \o GzTrailer(SubSeq(st.input, 1, st.rd))]
      [] call = "bufout.Flush" ->
            IF st.fileOpen
            THEN [st EXCEPT !.fileBytes = @ \o st.bufHeld, !.bufHeld = <<>>]
            ELSE [st EXCEPT !.lost = @ \/ st.bufHeld # <<>>]
      [] OTHER ->
            [st EXCEPT !.fileOpen = FALSE]

\* the return of archive: the deferred calls run, their errors are dropped
ArReturn ==
    /\ ar.pc = "return"
    /\ IF ar.defers = <<>>
       THEN ar' = [ar EXCEPT !.pc = "done", !.returned = TRUE]
       ELSE LET p == PopDeferred(ar.defers)
            IN  ar' = [RunDeferred(ar, p.call) EXCEPT
                         !.defers = p.rest,
                         !.released = Append(@, p.call)]
    /\ UNCHANGED <<crVars, workVars, upd, kv, rf>>

NextAr ==
    \/ ArMkdirAll
    \/ ArCreate
    \/ ArCopy
    \/ ArReturn

SpecArchive == InitAr /\ [][NextAr]_vars

\* ------------------------------------------------------------------ C18

\* C18: on every return after the output file was created the compressed
\* writer has been closed first, then the buffered writer flushed, then the
\* file closed, when the copy succeeded and when it failed, so that no writer
\* is left holding bytes and nothing is written to a closed file; when the
\* directory or the file could not be created nothing was opened.
C18_FlushThenClose ==
    (ar.pc # "idle" /\ ar.returned) =>
        /\ ~ar.zipOpen
        /\ ~ar.fileOpen
        /\ IF ar.created
           THEN /\ ar.released = <<"zipWriter.Close", "bufout.Flush", "outfile.Close">>
                /\ ar.zipHeld = <<>>
                /\ ar.bufHeld = <<>>
                /\ ~ar.lost
                /\ ar.err \in {Nil, CopyErr}
                /\ ar.err = Nil => ar.rd = Len(ar.input)
           ELSE /\ ar.released = <<>>
                /\ ar.err \in {MkdirErr, CreateErr}
                /\ ar.fileBytes = <<>>

\* the copy failed after the first byte, which was still held by the
\* compressed writer, and archive has returned the error
C18_Witness ==
    /\ ar.returned
    /\ ar.created
    /\ ar.err = CopyErr
    /\ ar.rd = 1
    /\ Len(ar.input) = 2
    /\ ar.released = <<"zipWriter.Close", "bufout.Flush", "outfile.Close">>
    /\ ar.fileBytes = CompressedStream(SubSeq(ar.input, 1, 1))


\* ------------------------------------------------------------------ C22

\* the number of receives from inwork and of returns of Process that the
\* workers made for the callbacks 1..j
RECURSIVE SumRecv(_)
SumRecv(j) == IF j = 0 THEN 0 ELSE hist.items[j].recv + SumRecv(j - 1)

RECURSIVE SumProc(_)
SumProc(j) == IF j = 0 THEN 0 ELSE hist.items[j].proc + SumProc(j - 1)

\* the units whose send has completed: taken by a worker or held by the channel
HandedOff == Len(inwork) + SumRecv(Len(tree))

\* the units handed off whose Process call has not returned
InFlight == HandedOff - SumProc(Len(tree))

C22_Inv ==
    pc # "idle" => (InFlight <= numWorkers /\ inwork = <<>>)

C22_SendStep ==
    (pc = "dispatch" /\ HandedOff' > HandedOff) =>
        /\ HandedOff' = HandedOff + 1
        /\ \E s \in 1..numWorkers :
              /\ slaves[s].pc = "recv"
              /\ slaves'[s].pc = "process"
              /\ \A t \in (1..numWorkers) \ {s} : slaves'[t] = slaves[t]

\* C22: at every moment the units that the dispatch walk has handed off and
\* whose Process call has not returned number at most NumWorkers, the work
\* channel holds no unit, and a send of the walk completes only by a worker
\* that was waiting for a unit taking it.
C22_BackPressure == []C22_Inv /\ [][C22_SendStep]_vars

\* both of two workers are in Process and the next callback of the walk is
\* an accepted file: the walk is blocked in its send
C22_Witness ==
    /\ pc = "dispatch"
    /\ numWorkers = 2
    /\ \A s \in 1..numWorkers : slaves[s].pc = "process"
    /\ InFlight = numWorkers
    /\ pos <= Len(WalkOf(paths[rootK]))
    /\ LET j == WalkOf(paths[rootK])[pos]
       IN  scanVisit(tree[j].path, InfoOf(j), ErrOf(j, "dispatch")).send


\* ------------------------------------------------------------------ C23

\* the steps of the goroutine that runs Work
WorkStep ==
    \/ Start
    \/ AbsPath
    \/ CountVisit
    \/ CountWalkReturn
    \/ SpawnWorker
    \/ DispatchVisit
    \/ DispatchWalkReturn
    \/ MasterRecv
    \/ CollectDone
    \/ FinishUpReturn

\* the steps of the goroutine that runs runSlave for worker s
SlaveStep(s) == SlaveProcess(s) \/ SlaveClose(s) \/ SlaveExit(s)

\* Work under a scheduler that lets every goroutine that can take a step
\* take one, with every Process, Close and master call returning
SpecWorkFair ==
    /\ Init
    /\ [][Next]_vars
    /\ WF_vars(WorkStep)
    /\ \A s \in 1..MaxWorkers : WF_vars(s \in 1..numWorkers /\ SlaveStep(s))

\* Work has returned after the workers were started: every worker has
\* completed its exit send, Work has received one exit value per worker and
\* closeC holds none
C23_CleanReturn ==
    (pc = "done" /\ scanned.called) =>
        /\ \A s \in 1..numWorkers : slaves[s].pc = "done"
        /\ Len(hist.received) = numWorkers
        /\ closeC = <<>>

\* C23: for every NumWorkers >= 0 and every set of accepted files Work
\* returns, and when it returns no worker is left running: every exit send
\* has completed and Work has received exactly NumWorkers exit values.
C23_WorkTerminates == <>(pc = "done") /\ []C23_CleanReturn


\* ------------------------------------------------------------------ C24

\* C24: the error of worker.Close is only logged: what a worker sends on
\* closeC is its first Process error (nil when no Process failed) whether or
\* not its Close failed, no value on closeC, received by Work or returned by
\* Work is the error of a Close, and after a FinishUp that succeeded Work
\* returns the first non-nil exit value it received.
C24_CloseErrorOnlyLogged ==
    pc # "idle" =>
        /\ \A s \in 1..numWorkers :
              hist.sent[s] # <<>> => hist.sent[s] = << FirstNonNil(ErrsOf(s)) >>
        /\ \A n \in 1..Len(closeC) : closeC[n] # CloseErr
        /\ \A n \in 1..Len(hist.received) : hist.received[n] # CloseErr
        /\ perr # CloseErr
        /\ result # CloseErr
        /\ (pc = "done" /\ hist.finishUpReturned /\ hist.finishUpErr = Nil) =>
              result = FirstNonNil(hist.received)

\* a worker's Close failed after its Process calls succeeded, FinishUp
\* succeeded, and Work returned nil
C24_Witness ==
    /\ pc = "done"
    /\ hist.closeFailed
    /\ hist.finishUpReturned
    /\ hist.finishUpErr = Nil
    /\ numWorkers >= 1
    /\ \E s \in 1..numWorkers : Len(hist.wlog[s]) >= 1
    /\ \A s \in 1..numWorkers : hist.sent[s] = <<Nil>>
    /\ result = Nil

====
